---- MODULE Spec2Model ----
(***************************************************************************)
(* A model of the turn-synchronised entity-component core of glaive:       *)
(* the World store (ecs/world.py), the SystemScheduler and MovementSystem  *)
(* (ecs/systems.py), the effect engine (effects/apply.py,                  *)
(* effects/components.py, effects/systems.py), the ground pools            *)
(* (effects/pools.py) and the driver loop of main.py.                      *)
(*                                                                         *)
(* The store is one record, world, mutated by the operators below exactly  *)
(* as the Python mutates the World object.  A raised exception is the      *)
(* field err: once it is set, the rest of the running call does nothing    *)
(* (the exception propagates), and what was mutated before stays mutated.  *)
(*                                                                         *)
(* Effect objects are Python objects shared by reference: they live in     *)
(* world.heap and an ActiveEffects list holds references to them.          *)
(*                                                                         *)
(* Parts of the repository that the sources only declare or call are       *)
(* modelled from the specification: the initial (empty) value of           *)
(* World._components and World._resources (ecs/world.py:14-15 declare them *)
(* without a value), World.remove_component (called, never defined) and    *)
(* the GroundPool component (constructed in effects/pools.py:82-91, never  *)
(* defined).  The field attrs of the world names what a World has: on      *)
(* NewWorld, the World of ecs/world.py, every access of a table raises     *)
(* AttributeError; on StoreWorld, which has the tables, every call of      *)
(* remove_component does; FullWorld has the method as well, and the        *)
(* worlds of the specifications below are built on it.                     *)
(***************************************************************************)
EXTENDS Integers, Sequences, FiniteSets, TLC

(***************************************************************************)
(* Bounds of the model.                                                    *)
(***************************************************************************)
\* entity ids are 0..MaxEntity
MaxEntity == 3
\* number of duration effects applied in one behaviour
MaxApplied == 2
\* number of resolved turns in one behaviour
MaxTurns == 3
\* number of pools put on the map in one behaviour
MaxPools == 1
\* longest duration of an applied effect or pool
MaxDuration == 2
\* number of add_system calls in one behaviour of the scheduler specification
MaxSystems == 2
\* width of the arena
MapWidth == 4
\* number of direct effect applications in one behaviour of the instant
\* effects specification
MaxInstant == 2
\* entity ids of the store specification are 0..MaxStored
MaxStored == 1
\* number of create_entity calls in one behaviour of the store specification
MaxCreated == 2
\* most component types named in one get_entities_with call
MaxTypes == 2
\* the maps of the geometry specification are GeoSize cells wide and high
GeoSize == 3
\* largest radius asked of get_tiles_in_radius
MaxRadius == 2

(***************************************************************************)
(* Program constants.                                                      *)
(***************************************************************************)
\* effects/pools.py:14
POOL_DURATION == 5

None == "None"
NoError == "ok"

Entities == 0 .. MaxEntity

ComponentTypes ==
    {"IsPlayer", "IsActor", "TurnConsumed", "Position", "Drawable", "MoveIntent",
     "Stats", "Health", "Mana", "Experience", "ActiveEffects", "GroundPool",
     "Item", "Consumable", "Equipment", "OnGround", "InInventory", "Equipped",
     "Inventory", "EquipmentSlots"}

EffectTypes ==
    {"HEAL", "DAMAGE", "POISON", "REGEN", "RESTORE_MANA", "DRAIN_MANA",
     "STAT_BUFF", "STAT_DEBUFF"}

(***************************************************************************)
(* Helpers on Python dicts (functions with a finite domain), sets, lists.  *)
(***************************************************************************)
EmptyDict == [k \in {} |-> 0]

DictPut(d, k, v) == [x \in (DOMAIN d) \cup {k} |-> IF x = k THEN v ELSE d[x]]

DictPop(d, k) == [x \in (DOMAIN d) \ {k} |-> d[x]]

DictGet(d, k) == IF k \in DOMAIN d THEN d[k] ELSE None

SetMin(S) == CHOOSE m \in S : \A x \in S : m <= x

\* CPython iterates a set of small non-negative ints in ascending order
RECURSIVE SetIter(_)
SetIter(S) == IF S = {} THEN <<>> ELSE <<SetMin(S)>> \o SetIter(S \ {SetMin(S)})

Min2(a, b) == IF a <= b THEN a ELSE b

Max2(a, b) == IF a >= b THEN a ELSE b

Range(s) == {s[i] : i \in DOMAIN s}

(***************************************************************************)
(* Component and Effect records (ecs/components.py, effect_types.py).      *)
(***************************************************************************)
Marker == [present |-> TRUE]

Position(x, y) == [x |-> x, y |-> y]

MoveIntent(dx, dy, consumes_turn) == [dx |-> dx, dy |-> dy, consumes_turn |-> consumes_turn]

Stats(con, int) ==
    [strength |-> 10, dexterity |-> 10, constitution |-> con,
     intelligence |-> int, wisdom |-> 10, charisma |-> 10]

Health(current_hp, base_max_hp) == [current_hp |-> current_hp, base_max_hp |-> base_max_hp]

Mana(current_mp, base_max_mp) == [current_mp |-> current_mp, base_max_mp |-> base_max_mp]

Experience(level) == [current_xp |-> 0, level |-> level]

Drawable(name) == [name |-> name]

Effect(name, effect_type, power, stat_modifiers, duration) ==
    [name |-> name, effect_type |-> effect_type, power |-> power,
     stat_modifiers |-> stat_modifiers, duration |-> duration,
     radius |-> 0, source_entity |-> None]

GroundPool(effect_type, power, duration, name, source_entity) ==
    [effect_type |-> effect_type, power |-> power, duration |-> duration,
     name |-> name, source_entity |-> source_entity]

\* a variant of max_hp that leaves the constitution out
max_hp_no_constitution(health, stats, level) == health.base_max_hp + (level * 5)

max_hp(health, stats, level) == health.base_max_hp + (stats.constitution * 2) + (level * 5)

\* a variant of max_mp with the level weight of max_hp
max_mp_level_as_hp(mana, stats, level) ==
    mana.base_max_mp + (stats.intelligence * 2) + (level * 5)

max_mp(mana, stats, level) == mana.base_max_mp + (stats.intelligence * 2) + (level * 3)

(***************************************************************************)
(* World (ecs/world.py).                                                   *)
(***************************************************************************)
NoComponents == [t \in ComponentTypes |-> EmptyDict]

NoResources == {}

\* World.__init__ assigns _next_entity_id and _entities (a dict, {}) and only
\* annotates _components and _resources: attrs holds the attributes the
\* instance has, and the two tables are read only when attrs names them
NewWorld ==
    [next_entity_id |-> 0,
     entities |-> EmptyDict,
     attrs |-> {"_next_entity_id", "_entities"},
     visible |-> {},
     explored |-> {},
     camera |-> [x |-> 0, y |-> 0],
     components |-> NoComponents,
     resources |-> NoResources,
     heap |-> EmptyDict,
     log |-> <<>>,
     popup_stack |-> <<>>,
     err |-> NoError]

\* the World the rest of the program is written for: the two tables are
\* assigned, empty, as the annotations of World.__init__ declare them.
\* With the store the record carries the objects its resources hold: the
\* message log and the pop-up stack of the UIState, the corner of the
\* camera's viewport, and the visible and explored tiles of the map of the
\* MapResource (the cells of GameMap.visible and GameMap.explored that are
\* True, map/map.py:42-47)
StoreWorld == [NewWorld EXCEPT !.attrs = @ \cup {"_components", "_resources"}]

\* the World with the method that ten call sites use and ecs/world.py does
\* not define: attrs names remove_component once the method is supplied
FullWorld == [StoreWorld EXCEPT !.attrs = @ \cup {"remove_component"}]

Raise(w, exc) == [w EXCEPT !.err = exc]

Failed(w) == w.err # NoError

\* reading self.<attr> raises AttributeError when __init__ never assigned it
unassigned(w, attr) == attr \notin w.attrs

\* create_entity: the id counter is advanced, then self._entities.add raises
\* AttributeError because _entities is a dict; no id is returned.
create_entity(w) ==
    IF Failed(w) THEN [w |-> w, id |-> None]
    ELSE [w |-> Raise([w EXCEPT !.next_entity_id = @ + 1], "AttributeError"),
          id |-> None]

\* a variant of add_component that keeps the component the entity has
add_component_keep(w, entity, ctype, component) ==
    IF Failed(w) \/ entity \in DOMAIN w.components[ctype] THEN w
    ELSE [w EXCEPT !.components[ctype] = DictPut(@, entity, component)]

add_component(w, entity, ctype, component) ==
    IF Failed(w) THEN w
    ELSE IF unassigned(w, "_components") THEN Raise(w, "AttributeError")
    ELSE [w EXCEPT !.components[ctype] = DictPut(@, entity, component)]

\* get_component: the component, None, or the name of the exception raised
get_component(w, entity, ctype) ==
    IF unassigned(w, "_components") THEN "AttributeError"
    ELSE DictGet(w.components[ctype], entity)

\* get_component(entity, ctype) is not None, on a World that has its tables
has_component(w, entity, ctype) == entity \in DOMAIN w.components[ctype]

\* component_for: the assertion fails when the component is absent
component_for_fails(w, entity, ctype) == ~has_component(w, entity, ctype)

\* a variant of the intersection that unites the sets
RECURSIVE SetIntersection_union(_)
SetIntersection_union(sets) ==
    IF Len(sets) = 1 THEN sets[1] ELSE sets[1] \cup SetIntersection_union(Tail(sets))

RECURSIVE SetIntersection(_)
SetIntersection(sets) ==
    IF Len(sets) = 1 THEN sets[1] ELSE sets[1] \cap SetIntersection(Tail(sets))

\* get_entities_with(*component_types) for at least one type, on a World
\* that has its tables
get_entities_with(w, ctypes) ==
    SetIntersection([i \in 1 .. Len(ctypes) |-> DOMAIN w.components[ctypes[i]]])

\* get_entities_with() without a type: iter(self._entities), an iterator
\* over the keys of the _entities dict, here the ids it yields in order
get_all_entities(w) == SetIter(DOMAIN w.entities)

\* a variant of remove_component that drops the component of every entity
remove_component_of_all(w, entity, ctype) ==
    IF Failed(w) THEN w
    ELSE IF unassigned(w, "remove_component") THEN Raise(w, "AttributeError")
    ELSE IF unassigned(w, "_components") THEN Raise(w, "AttributeError")
    ELSE [w EXCEPT !.components[ctype] = EmptyDict]

\* world.remove_component(entity, ctype): World has no such method
\* (ecs/world.py:8-66), so the attribute lookup raises AttributeError
\* whatever the arguments are.  On a World that was given the method the
\* component is taken from the entity, a no-op when it is absent
remove_component(w, entity, ctype) ==
    IF Failed(w) THEN w
    ELSE IF unassigned(w, "remove_component") THEN Raise(w, "AttributeError")
    ELSE IF unassigned(w, "_components") THEN Raise(w, "AttributeError")
    ELSE [w EXCEPT !.components[ctype] = DictPop(@, entity)]

add_resource(w, rtype) ==
    IF Failed(w) THEN w
    ELSE IF unassigned(w, "_resources") THEN Raise(w, "AttributeError")
    ELSE [w EXCEPT !.resources = @ \cup {rtype}]

\* the registered types that are no Resource subclass and have no instance
\* field (ecs/resources.py:38-44)
PlainResources == {"LookModeResource"}

\* get_resource: self._resources.get(resource_type).instance raises
\* AttributeError when the type is not registered (None has no instance)
\* and when the registered object has no instance field; the instance of
\* a registered Resource is named by its type
get_resource(w, rtype) ==
    IF Failed(w) THEN [w |-> w, instance |-> None]
    ELSE IF unassigned(w, "_resources")
         THEN [w |-> Raise(w, "AttributeError"), instance |-> None]
    ELSE IF rtype \in w.resources /\ rtype \notin PlainResources
         THEN [w |-> w, instance |-> rtype]
         ELSE [w |-> Raise(w, "AttributeError"), instance |-> None]

\* resource_for: get_resource, then the assertion on its result
resource_for(w, rtype) == get_resource(w, rtype).w

\* MessageLog.add through the UIResource
log_add(w, message) ==
    LET add(w1) == IF Failed(w1) THEN w1 ELSE [w1 EXCEPT !.log = Append(@, message)]
    IN  add(resource_for(w, "UIResource"))

(***************************************************************************)
(* Messages.  A message stands for the formatted text pushed to the log or *)
(* returned to the caller: its kind, the entity it is about, the effect or *)
(* pool it names and the number it mentions.                               *)
(***************************************************************************)
Msg(kind, entity, what, amount) ==
    [kind |-> kind, entity |-> entity, what |-> what, amount |-> amount]

level_of(w, entity) ==
    IF has_component(w, entity, "Experience")
    THEN get_component(w, entity, "Experience").level
    ELSE 1

\* a variant of the hp assignment that stops at zero
set_hp_floored(w, entity, hp) ==
    [w EXCEPT !.components["Health"][entity].current_hp = Max2(hp, 0)]

set_hp(w, entity, hp) == [w EXCEPT !.components["Health"][entity].current_hp = hp]

set_mp(w, entity, mp) == [w EXCEPT !.components["Mana"][entity].current_mp = mp]

hp_of(w, entity) == w.components["Health"][entity].current_hp

mp_of(w, entity) == w.components["Mana"][entity].current_mp

(***************************************************************************)
(* ActiveEffects (effects/components.py).  An effects list is a sequence   *)
(* of references into the heap of Effect objects.                          *)
(***************************************************************************)
\* a variant of add_effect in which the new effect takes the place of the list
add_effect_overwrite(effects, ref) == <<ref>>

add_effect(effects, ref) == Append(effects, ref)

RECURSIVE tick_loop(_, _, _, _)
tick_loop(heap, effects, expired, remaining) ==
    IF effects = <<>>
    THEN [heap |-> heap, expired |-> expired, remaining |-> remaining]
    ELSE LET ref == Head(effects)
             heap1 == [heap EXCEPT ![ref].duration = @ - 1]
         IN  IF heap1[ref].duration <= 0
             THEN tick_loop(heap1, Tail(effects), Append(expired, ref), remaining)
             ELSE tick_loop(heap1, Tail(effects), expired, Append(remaining, ref))

\* a variant of tick_effects that lets an effect expire one tick late
RECURSIVE tick_loop_late(_, _, _, _)
tick_loop_late(heap, effects, expired, remaining) ==
    IF effects = <<>>
    THEN [heap |-> heap, expired |-> expired, remaining |-> remaining]
    ELSE LET ref == Head(effects)
             heap1 == [heap EXCEPT ![ref].duration = @ - 1]
         IN  IF heap1[ref].duration < 0
             THEN tick_loop_late(heap1, Tail(effects), Append(expired, ref), remaining)
             ELSE tick_loop_late(heap1, Tail(effects), expired, Append(remaining, ref))

tick_effects_late(heap, effects) == tick_loop_late(heap, effects, <<>>, <<>>)

\* tick_effects: returns the expired effects; self.effects becomes remaining
tick_effects(heap, effects) == tick_loop(heap, effects, <<>>, <<>>)

\* a variant of add_modifiers in which a later effect replaces the total
add_modifiers_last(totals, modifiers) ==
    [stat \in (DOMAIN totals) \cup (DOMAIN modifiers) |->
        IF stat \in DOMAIN modifiers THEN modifiers[stat] ELSE totals[stat]]

\* totals[stat] = totals.get(stat, 0) + value for the modifiers of one effect
add_modifiers(totals, modifiers) ==
    [stat \in (DOMAIN totals) \cup (DOMAIN modifiers) |->
        (IF stat \in DOMAIN totals THEN totals[stat] ELSE 0)
        + (IF stat \in DOMAIN modifiers THEN modifiers[stat] ELSE 0)]

\* get_stat_modifiers: the modifiers of all the effects of the list, summed
RECURSIVE get_stat_modifiers(_, _)
get_stat_modifiers(heap, effects) ==
    IF effects = <<>> THEN EmptyDict
    ELSE add_modifiers(get_stat_modifiers(heap, SubSeq(effects, 1, Len(effects) - 1)),
                       heap[effects[Len(effects)]].stat_modifiers)

(***************************************************************************)
(* Effective stats (ecs/stats_util.py).                                    *)
(***************************************************************************)
get_effective_stats(w, entity) ==
    IF ~has_component(w, entity, "Stats") THEN Stats(10, 10)
    ELSE LET stats == get_component(w, entity, "Stats")
             modifiers ==
                 IF has_component(w, entity, "ActiveEffects")
                 THEN get_stat_modifiers(w.heap,
                          get_component(w, entity, "ActiveEffects").effects)
                 ELSE EmptyDict
         IN  [stat \in DOMAIN stats |->
                 IF stat \in DOMAIN modifiers THEN stats[stat] + modifiers[stat]
                 ELSE stats[stat]]

\* apply_level_up(exp, stats) on the Experience of the entity: exp.level += 1
apply_level_up(w, entity) ==
    [w EXCEPT !.components["Experience"][entity].level = @ + 1]

(***************************************************************************)
(* apply_effect_to_entity (effects/apply.py).  The result is the world and *)
(* the returned message.                                                   *)
(***************************************************************************)
target_max_hp(w, target) ==
    IF ~has_component(w, target, "Stats")
    THEN get_component(w, target, "Health").base_max_hp
    ELSE max_hp(get_component(w, target, "Health"), get_component(w, target, "Stats"),
                level_of(w, target))

target_max_mp(w, target) ==
    IF ~has_component(w, target, "Stats")
    THEN get_component(w, target, "Mana").base_max_mp
    ELSE max_mp(get_component(w, target, "Mana"), get_component(w, target, "Stats"),
                level_of(w, target))

apply_instant_effect(w, target, effect) ==
    LET kind == effect.effect_type
        health == has_component(w, target, "Health")
        mana == has_component(w, target, "Mana")
        NoEffect(what) == [w |-> w, msg |-> Msg("no effect", target, what, 0)]
    IN
    IF kind = "HEAL" THEN
        IF ~health THEN NoEffect("target has no health")
        ELSE LET old_hp == hp_of(w, target)
                 new_hp == Min2(old_hp + effect.power, target_max_hp(w, target))
                 healed == new_hp - old_hp
             IN  IF healed > 0
                 THEN [w |-> set_hp(w, target, new_hp),
                       msg |-> Msg("restored HP", target, kind, healed)]
                 ELSE [w |-> set_hp(w, target, new_hp),
                       msg |-> Msg("no effect", target, "already at full health", 0)]
    ELSE IF kind = "DAMAGE" THEN
        IF ~health THEN NoEffect("target has no health")
        ELSE [w |-> set_hp(w, target, hp_of(w, target) - effect.power),
              msg |-> Msg("dealt damage", target, kind, effect.power)]
    ELSE IF kind = "RESTORE_MANA" THEN
        IF ~mana THEN NoEffect("target has no mana")
        ELSE LET old_mp == mp_of(w, target)
                 new_mp == Min2(old_mp + effect.power, target_max_mp(w, target))
                 restored == new_mp - old_mp
             IN  IF restored > 0
                 THEN [w |-> set_mp(w, target, new_mp),
                       msg |-> Msg("restored MP", target, kind, restored)]
                 ELSE [w |-> set_mp(w, target, new_mp),
                       msg |-> Msg("no effect", target, "already at full mana", 0)]
    ELSE IF kind = "DRAIN_MANA" THEN
        IF ~mana THEN NoEffect("target has no mana")
        ELSE LET old_mp == mp_of(w, target)
                 new_mp == Max2(old_mp - effect.power, 0)
             IN  [w |-> set_mp(w, target, new_mp),
                  msg |-> Msg("drained MP", target, kind, old_mp - new_mp)]
    ELSE IF kind \in {"POISON", "REGEN"} THEN
        IF ~health THEN NoEffect("target has no health")
        ELSE IF kind = "POISON"
        THEN [w |-> set_hp(w, target, hp_of(w, target) - effect.power),
              msg |-> Msg("dealt poison damage", target, kind, effect.power)]
        ELSE LET old_hp == hp_of(w, target)
                 new_hp == Min2(old_hp + effect.power, target_max_hp(w, target))
             IN  [w |-> set_hp(w, target, new_hp),
                  msg |-> Msg("regenerated HP", target, kind, new_hp - old_hp)]
    ELSE IF kind \in {"STAT_BUFF", "STAT_DEBUFF"} THEN
        IF DOMAIN effect.stat_modifiers # {}
        THEN [w |-> w, msg |-> Msg("modified stats", target, kind, effect.stat_modifiers)]
        ELSE NoEffect("no stat modifiers")
    ELSE NoEffect("")

\* a variant of apply_effect_to_entity that keeps an effect of duration 0 in
\* the list of the target like a lasting one
apply_effect_to_entity_lasting(w, target, ref) ==
    LET w1 == IF ~has_component(w, target, "ActiveEffects")
              THEN add_component(w, target, "ActiveEffects", [effects |-> <<>>])
              ELSE w
    IN  [w |-> [w1 EXCEPT !.components["ActiveEffects"][target].effects = Append(@, ref)],
         msg |-> Msg("applied", target, w.heap[ref].name, w.heap[ref].duration)]

\* a variant of apply_effect_to_entity that requires the Health of the target
apply_effect_to_entity_required(w, target, ref) ==
    IF component_for_fails(w, target, "Health")
    THEN [w |-> Raise(w, "AssertionError"), msg |-> Msg("raised", target, "AssertionError", 0)]
    ELSE IF w.heap[ref].duration = 0 THEN apply_instant_effect(w, target, w.heap[ref])
    ELSE apply_effect_to_entity_lasting(w, target, ref)

\* the effect is the Effect object heap[ref]; a duration effect is appended
\* by reference, the list being created when the target has none
apply_effect_to_entity(w, target, ref) ==
    LET effect == w.heap[ref] IN
    IF Failed(w) THEN [w |-> w, msg |-> Msg("raised", target, w.err, 0)]
    ELSE IF effect.duration = 0 THEN apply_instant_effect(w, target, effect)
    ELSE LET w1 == IF ~has_component(w, target, "ActiveEffects")
                   THEN add_component(w, target, "ActiveEffects", [effects |-> <<>>])
                   ELSE w
             w2 == [w1 EXCEPT !.components["ActiveEffects"][target].effects =
                                    add_effect(@, ref)]
         IN  [w |-> w2, msg |-> Msg("applied", target, effect.name, effect.duration)]

(***************************************************************************)
(* EffectTickSystem (effects/systems.py).                                  *)
(***************************************************************************)
log_tick(w, entity, what, amount) ==
    IF has_component(w, entity, "IsPlayer")
    THEN log_add(w, Msg("tick", entity, what, amount))
    ELSE IF has_component(w, entity, "Drawable")
         THEN log_add(w, Msg("tick", entity, what, amount))
         ELSE w

\* a variant that reports the expiration on any entity
log_expiration_any(w, entity, effect) ==
    IF Failed(w) THEN w ELSE log_add(w, Msg("wears off", entity, effect.name, 0))

log_expiration(w, entity, effect) ==
    IF Failed(w) THEN w
    ELSE IF has_component(w, entity, "IsPlayer")
         THEN log_add(w, Msg("wears off", entity, effect.name, 0))
         ELSE w

apply_tick(w, entity, effect) ==
    LET health == has_component(w, entity, "Health")
        stats == has_component(w, entity, "Stats")
    IN
    IF Failed(w) THEN w
    ELSE IF effect.effect_type = "POISON" /\ health THEN
        log_tick(set_hp(w, entity, hp_of(w, entity) - effect.power),
                 entity, "poison damage", effect.power)
    ELSE IF effect.effect_type = "REGEN" /\ health /\ stats THEN
        LET old_hp == hp_of(w, entity)
            new_hp == Min2(old_hp + effect.power,
                           max_hp(get_component(w, entity, "Health"),
                                  get_component(w, entity, "Stats"), level_of(w, entity)))
        IN  IF new_hp - old_hp > 0
            THEN log_tick(set_hp(w, entity, new_hp), entity, "regenerate", new_hp - old_hp)
            ELSE set_hp(w, entity, new_hp)
    ELSE IF effect.effect_type = "DAMAGE" /\ health THEN
        log_tick(set_hp(w, entity, hp_of(w, entity) - effect.power),
                 entity, "damage", effect.power)
    ELSE w

\* a variant of the loop that applies the first effect of the list only
apply_ticks_first(w, entity, effects) ==
    IF effects = <<>> THEN w ELSE apply_tick(w, entity, w.heap[Head(effects)])

\* for effect in active.effects: self._apply_tick(...)
RECURSIVE apply_ticks(_, _, _)
apply_ticks(w, entity, effects) ==
    IF effects = <<>> THEN w
    ELSE apply_ticks(apply_tick(w, entity, w.heap[Head(effects)]), entity, Tail(effects))

\* for effect in expired: self._log_expiration(...)
RECURSIVE log_expirations(_, _, _)
log_expirations(w, entity, expired) ==
    IF expired = <<>> THEN w
    ELSE log_expirations(log_expiration(w, entity, w.heap[Head(expired)]), entity,
                         Tail(expired))

\* the body of the loop over the entities with ActiveEffects
tick_entity(w, entity) ==
    LET effects == get_component(w, entity, "ActiveEffects").effects
        expire(w1, t) ==
            log_expirations([w1 EXCEPT !.heap = t.heap,
                                       !.components["ActiveEffects"][entity].effects =
                                           t.remaining],
                            entity, t.expired)
        tick(w1) == IF Failed(w1) THEN w1 ELSE expire(w1, tick_effects(w1.heap, effects))
    IN  tick(apply_ticks(w, entity, effects))

RECURSIVE tick_entities(_, _, _)
tick_entities(w, todo, entities_to_clean) ==
    IF todo = <<>> \/ Failed(w) THEN [w |-> w, entities_to_clean |-> entities_to_clean]
    ELSE LET entity == Head(todo)
             empty(w1) ==
                 ~Failed(w1) /\ get_component(w1, entity, "ActiveEffects").effects = <<>>
             rest(w1) ==
                 tick_entities(w1, Tail(todo),
                     IF empty(w1) THEN Append(entities_to_clean, entity)
                     ELSE entities_to_clean)
         IN  rest(tick_entity(w, entity))

RECURSIVE remove_all(_, _, _)
remove_all(w, todo, ctype) ==
    IF todo = <<>> THEN w
    ELSE remove_all(remove_component(w, Head(todo), ctype), Tail(todo), ctype)

\* a variant of the update without the turn gate
EffectTickSystem_update_ungated(w) ==
    IF Failed(w) THEN w
    ELSE LET clean(r) == remove_all(r.w, r.entities_to_clean, "ActiveEffects")
         IN  clean(tick_entities(w, SetIter(get_entities_with(w, <<"ActiveEffects">>)),
                                 <<>>))

EffectTickSystem_update(w) ==
    IF Failed(w) THEN w
    ELSE IF get_entities_with(w, <<"TurnConsumed">>) = {} THEN w
    ELSE LET clean(r) == remove_all(r.w, r.entities_to_clean, "ActiveEffects")
         IN  clean(tick_entities(w, SetIter(get_entities_with(w, <<"ActiveEffects">>)),
                                 <<>>))


(***************************************************************************)
(* Ground pools (effects/pools.py).                                        *)
(***************************************************************************)
POOL_NAMES ==
    [t \in EffectTypes |->
        CASE t = "HEAL" -> "healing liquid"
          [] t = "DAMAGE" -> "harmful liquid"
          [] t = "POISON" -> "poisonous liquid"
          [] t = "REGEN" -> "regenerative liquid"
          [] t = "RESTORE_MANA" -> "mana-restoring liquid"
          [] t = "DRAIN_MANA" -> "mana-draining liquid"
          [] t = "STAT_BUFF" -> "empowering liquid"
          [] OTHER -> "weakening liquid"]

pools_at(w, x, y) ==
    {e \in get_entities_with(w, <<"GroundPool", "Position">>) :
        /\ get_component(w, e, "Position").x = x
        /\ get_component(w, e, "Position").y = y}

\* get_pool_at: the first pool found at the tile, or None
get_pool_at(w, x, y) ==
    IF pools_at(w, x, y) = {} THEN None ELSE SetMin(pools_at(w, x, y))

RECURSIVE destroy_loop(_, _, _)
destroy_loop(w, entity, ctypes) ==
    IF ctypes = {} THEN w
    ELSE LET t == CHOOSE c \in ctypes : TRUE
         IN  destroy_loop(IF has_component(w, entity, t)
                          THEN remove_component(w, entity, t) ELSE w,
                          entity, ctypes \ {t})

\* _destroy_pool: remove the entity from every component table
destroy_pool(w, pool_entity) == destroy_loop(w, pool_entity, ComponentTypes)

remove_pool_at(w, x, y) ==
    IF Failed(w) THEN w
    ELSE IF pools_at(w, x, y) # {} THEN destroy_pool(w, get_pool_at(w, x, y))
    ELSE w

\* create_pool: the eviction, then create_entity and the three add_component
\* calls on the id it returns
create_pool(w, x, y, effect_type, power, source_entity, duration) ==
    LET w1 == remove_pool_at(w, x, y)
        c == create_entity(w1)
        w2 == add_component(c.w, c.id, "Position", Position(x, y))
        w3 == add_component(w2, c.id, "Drawable",
                  Drawable("pool of " \o POOL_NAMES[effect_type]))
        w4 == add_component(w3, c.id, "GroundPool",
                  GroundPool(effect_type, power, duration, POOL_NAMES[effect_type],
                             source_entity))
    IN  [w |-> w4, id |-> c.id]

(***************************************************************************)
(* GroundPoolSystem (effects/systems.py).                                  *)
(***************************************************************************)
log_pool_step(w, entity, pool) ==
    IF has_component(w, entity, "IsPlayer")
    THEN log_add(w, Msg("pool step", entity, pool.name, 0))
    ELSE w

log_effect(w, entity, what, amount) ==
    IF has_component(w, entity, "IsPlayer")
    THEN log_add(w, Msg("pool effect", entity, what, amount))
    ELSE IF has_component(w, entity, "Drawable")
         THEN log_add(w, Msg("pool effect", entity, what, amount))
         ELSE w

log_pool_dissipate(w, pool_entity) ==
    IF Failed(w) THEN w
    ELSE IF has_component(w, pool_entity, "GroundPool")
            /\ has_component(w, pool_entity, "Position")
    THEN log_add(w, Msg("dissipates", pool_entity,
                        get_component(w, pool_entity, "GroundPool").name, 0))
    ELSE w

apply_pool_effect(w, entity, pool) ==
    LET mana == has_component(w, entity, "Mana")
        stats == has_component(w, entity, "Stats")
        level == level_of(w, entity)
        log_healed(w1, what, healed) ==
            IF healed > 0 THEN log_effect(w1, entity, what, healed) ELSE w1
        heal(w0, what) ==
            LET old_hp == hp_of(w0, entity)
                new_hp == Min2(old_hp + pool.power,
                               max_hp(get_component(w0, entity, "Health"),
                                      get_component(w0, entity, "Stats"), level))
            IN  log_healed(set_hp(w0, entity, new_hp), what, new_hp - old_hp)
        effect_on(w0) ==
            IF Failed(w0) THEN w0
            ELSE IF pool.effect_type = "HEAL" /\ stats THEN heal(w0, "heal")
            ELSE IF pool.effect_type = "DAMAGE" THEN
                log_effect(set_hp(w0, entity, hp_of(w0, entity) - pool.power),
                           entity, "damage", pool.power)
            ELSE IF pool.effect_type = "POISON" THEN
                log_effect(set_hp(w0, entity, hp_of(w0, entity) - pool.power),
                           entity, "poison damage", pool.power)
            ELSE IF pool.effect_type = "REGEN" /\ stats THEN heal(w0, "regenerate")
            ELSE IF pool.effect_type = "RESTORE_MANA" /\ mana /\ stats THEN
                LET old_mp == mp_of(w0, entity)
                    new_mp == Min2(old_mp + pool.power,
                                   max_mp(get_component(w0, entity, "Mana"),
                                          get_component(w0, entity, "Stats"), level))
                IN  log_healed(set_mp(w0, entity, new_mp), "restore", new_mp - old_mp)
            ELSE IF pool.effect_type = "DRAIN_MANA" /\ mana THEN
                LET old_mp == mp_of(w0, entity)
                    new_mp == Max2(0, old_mp - pool.power)
                IN  log_healed(set_mp(w0, entity, new_mp), "lose", old_mp - new_mp)
            ELSE w0
    IN  IF Failed(w) THEN w
        ELSE IF component_for_fails(w, entity, "Health") THEN Raise(w, "AssertionError")
        ELSE effect_on(log_pool_step(w, entity, pool))

\* a variant of the scan that does not compare the tiles
RECURSIVE pool_actors_all(_, _, _)
pool_actors_all(w, pool_entity, todo) ==
    IF todo = <<>> \/ Failed(w) THEN w
    ELSE pool_actors_all(apply_pool_effect(w, Head(todo),
                             get_component(w, pool_entity, "GroundPool")),
                         pool_entity, Tail(todo))

\* for entity in world.get_entities_with(IsActor, Position, Health)
RECURSIVE pool_actors(_, _, _)
pool_actors(w, pool_entity, todo) ==
    IF todo = <<>> \/ Failed(w) THEN w
    ELSE LET entity == Head(todo)
             entity_pos == get_component(w, entity, "Position")
             pool_pos == get_component(w, pool_entity, "Position")
         IN  pool_actors(IF entity_pos.x = pool_pos.x /\ entity_pos.y = pool_pos.y
                         THEN apply_pool_effect(w, entity,
                                  get_component(w, pool_entity, "GroundPool"))
                         ELSE w,
                         pool_entity, Tail(todo))

\* the body of the loop over the pools: the occupants, then the duration
tick_pool(w, pool_entity) ==
    LET tick_down(w1) ==
            IF Failed(w1) THEN w1
            ELSE [w1 EXCEPT !.components["GroundPool"][pool_entity].duration = @ - 1]
    IN  tick_down(pool_actors(w, pool_entity,
                      SetIter(get_entities_with(w, <<"IsActor", "Position", "Health">>))))

RECURSIVE tick_pools(_, _, _)
tick_pools(w, todo, pools_to_remove) ==
    IF todo = <<>> \/ Failed(w) THEN [w |-> w, pools_to_remove |-> pools_to_remove]
    ELSE LET pool_entity == Head(todo)
             gone(w1) ==
                 ~Failed(w1) /\ get_component(w1, pool_entity, "GroundPool").duration <= 0
             rest(w1) ==
                 tick_pools(w1, Tail(todo),
                     IF gone(w1) THEN Append(pools_to_remove, pool_entity)
                     ELSE pools_to_remove)
         IN  rest(tick_pool(w, pool_entity))

\* a variant that destroys the pool before it reports it
RECURSIVE dissipate_pools_silent(_, _)
dissipate_pools_silent(w, todo) ==
    IF todo = <<>> \/ Failed(w) THEN w
    ELSE dissipate_pools_silent(log_pool_dissipate(destroy_pool(w, Head(todo)), Head(todo)),
                                Tail(todo))

RECURSIVE dissipate_pools(_, _)
dissipate_pools(w, todo) ==
    IF todo = <<>> \/ Failed(w) THEN w
    ELSE LET destroy(w1) == IF Failed(w1) THEN w1 ELSE destroy_pool(w1, Head(todo))
         IN  dissipate_pools(destroy(log_pool_dissipate(w, Head(todo))), Tail(todo))

GroundPoolSystem_update(w) ==
    IF Failed(w) THEN w
    ELSE IF get_entities_with(w, <<"TurnConsumed">>) = {} THEN w
    ELSE LET remove_expired(r) == dissipate_pools(r.w, r.pools_to_remove)
         IN  remove_expired(tick_pools(w,
                 SetIter(get_entities_with(w, <<"GroundPool", "Position">>)), <<>>))


(***************************************************************************)
(* GameMap (map/map.py) as ArenaGenerator builds it (map/generators.py):   *)
(* a room of floor tiles surrounded by walls, with a 2x2 pillar of wall at *)
(* every multiple of pillar_spacing that lies before the far walls.  The   *)
(* arena of the frame loop is MapWidth wide and three tiles high, too      *)
(* small for a pillar.                                                     *)
(***************************************************************************)
pillar_spacing == 8

\* range(pillar_spacing, limit - 2, pillar_spacing) holds the start of c's pillar
on_pillar(c, limit) ==
    /\ c >= pillar_spacing
    /\ c % pillar_spacing \in {0, 1}
    /\ c - (c % pillar_spacing) < limit - 2

ArenaGenerator(width, height) ==
    [width |-> width, height |-> height,
     tiles |-> [y \in 0 .. height - 1 |-> [x \in 0 .. width - 1 |->
                  IF x = 0 \/ y = 0 \/ x = width - 1 \/ y = height - 1
                  THEN "WALL"
                  ELSE IF on_pillar(x, width) /\ on_pillar(y, height)
                  THEN "WALL" ELSE "FLOOR"]]]

TILE_PROPERTIES ==
    [t \in {"FLOOR", "WALL", "SHALLOW_WATER", "DEEP_WATER", "ABYSS"} |->
        [blocks_movement |-> t \in {"WALL", "DEEP_WATER", "ABYSS"},
         blocks_sight |-> t = "WALL"]]

in_bounds(game_map, x, y) ==
    0 <= x /\ x < game_map.width /\ 0 <= y /\ y < game_map.height

get_tile(game_map, x, y) == game_map.tiles[y][x]

\* a location outside the map is reported as not blocking
blocks_movement(game_map, x, y) ==
    IF ~in_bounds(game_map, x, y) THEN FALSE
    ELSE TILE_PROPERTIES[get_tile(game_map, x, y)].blocks_movement

GameMap == ArenaGenerator(MapWidth, 3)

(***************************************************************************)
(* Geometry (effects/targeting.py) and the sight test of the map.          *)
(***************************************************************************)
Abs(n) == IF n < 0 THEN -n ELSE n

get_chebyshev_distance(x1, y1, x2, y2) == Max2(Abs(x2 - x1), Abs(y2 - y1))

\* the loops of get_line.  err is a multiple of one half in the code
\* (dx / 2 less and plus integers); err2 is twice err, so err < 0 is
\* err2 < 0
RECURSIVE line_along_x(_, _, _, _, _, _, _, _)
line_along_x(x, y, err2, x2, dx, dy, sx, sy) ==
    IF x = x2 THEN <<>>
    ELSE IF err2 - 2 * dy < 0
         THEN << <<x, y>> >> \o line_along_x(x + sx, y + sy, err2 - 2 * dy + 2 * dx,
                                             x2, dx, dy, sx, sy)
         ELSE << <<x, y>> >> \o line_along_x(x + sx, y, err2 - 2 * dy, x2, dx, dy, sx, sy)

RECURSIVE line_along_y(_, _, _, _, _, _, _, _)
line_along_y(x, y, err2, y2, dx, dy, sx, sy) ==
    IF y = y2 THEN <<>>
    ELSE IF err2 - 2 * dx < 0
         THEN << <<x, y>> >> \o line_along_y(x + sx, y + sy, err2 - 2 * dx + 2 * dy,
                                             y2, dx, dy, sx, sy)
         ELSE << <<x, y>> >> \o line_along_y(x, y + sy, err2 - 2 * dx, y2, dx, dy, sx, sy)

\* the points of the loop alone, without the end point appended after it
line_loop(x1, y1, x2, y2) ==
    LET dx == Abs(x2 - x1)
        dy == Abs(y2 - y1)
        sx == IF x1 < x2 THEN 1 ELSE -1
        sy == IF y1 < y2 THEN 1 ELSE -1
    IN  IF dx > dy THEN line_along_x(x1, y1, dx, x2, dx, dy, sx, sy)
        ELSE line_along_y(x1, y1, dy, y2, dx, dy, sx, sy)

\* a variant of get_line that leaves the end point out
get_line_open(x1, y1, x2, y2) == line_loop(x1, y1, x2, y2)

get_line(x1, y1, x2, y2) == Append(line_loop(x1, y1, x2, y2), <<x2, y2>>)

\* the points of the square in the order of the two loops: dy outside, dx
\* inside
square_around(center_x, center_y, radius) ==
    IF radius < 0 THEN <<>>
    ELSE [i \in 1 .. (2 * radius + 1) * (2 * radius + 1) |->
             <<center_x + ((i - 1) % (2 * radius + 1)) - radius,
               center_y + ((i - 1) \div (2 * radius + 1)) - radius>>]

\* a variant of get_tiles_in_radius that keeps the cells outside the map
get_tiles_in_radius_unclamped(center_x, center_y, radius, game_map) ==
    square_around(center_x, center_y, radius)

get_tiles_in_radius(center_x, center_y, radius, game_map) ==
    LET keep(t) ==
            /\ get_chebyshev_distance(0, 0, t[1] - center_x, t[2] - center_y) <= radius
            /\ in_bounds(game_map, t[1], t[2])
    IN  SelectSeq(square_around(center_x, center_y, radius), keep)

\* a Python list of n items takes the indices -n .. n - 1
list_index_fails(i, n) == i < -n \/ i > n - 1

\* blocks_sight reads self.tiles[y][x] with no bounds test: IndexError past
\* the lists, and a negative index counts from the end
blocks_sight(game_map, x, y) ==
    IF list_index_fails(y, game_map.height) \/ list_index_fails(x, game_map.width)
    THEN [err |-> "IndexError", value |-> FALSE]
    ELSE [err |-> NoError,
          value |-> TILE_PROPERTIES[get_tile(game_map, x % game_map.width,
                                             y % game_map.height)].blocks_sight]

\* for x, y in cells: if game_map.blocks_sight(x, y): return False
RECURSIVE sight_along(_, _)
sight_along(cells, game_map) ==
    IF cells = <<>> THEN [err |-> NoError, value |-> TRUE]
    ELSE IF blocks_sight(game_map, Head(cells)[1], Head(cells)[2]).err # NoError
    THEN [err |-> "IndexError", value |-> FALSE]
    ELSE IF blocks_sight(game_map, Head(cells)[1], Head(cells)[2]).value
    THEN [err |-> NoError, value |-> FALSE]
    ELSE sight_along(Tail(cells), game_map)

\* line[1:-1] is empty for a line of one or two points
has_line_of_sight(x1, y1, x2, y2, game_map) ==
    sight_along(SubSeq(get_line(x1, y1, x2, y2), 2, Len(get_line(x1, y1, x2, y2)) - 1),
                game_map)

(***************************************************************************)
(* Items (items/components.py) and the thrown item (items/throw_actions.py,*)
(* items/consumable_actions.py).                                           *)
(***************************************************************************)
Item(item_type, slot_size) ==
    [item_type |-> item_type, rarity |-> "common", base_value |-> 0, identified |-> FALSE,
     cursed |-> FALSE, slot_size |-> slot_size]

Consumable(effect_type, effect_power, creates_pool, radius, effect_duration) ==
    [effect_type |-> effect_type, effect_power |-> effect_power, uses_remaining |-> 1,
     creates_pool |-> creates_pool, radius |-> radius, pool_name |-> None,
     effect_duration |-> effect_duration, stat_modifiers |-> EmptyDict]

InInventory(owner) == [owner |-> owner]

\* EffectType(value): the member of that value, or no member
effect_type_map ==
    [v \in {"heal", "damage", "poison", "regen", "restore_mana", "drain_mana",
            "stat_buff", "stat_debuff"} |->
        CASE v = "heal" -> "HEAL" [] v = "damage" -> "DAMAGE" [] v = "poison" -> "POISON"
          [] v = "regen" -> "REGEN" [] v = "restore_mana" -> "RESTORE_MANA"
          [] v = "drain_mana" -> "DRAIN_MANA" [] v = "stat_buff" -> "STAT_BUFF"
          [] v = "stat_debuff" -> "STAT_DEBUFF"]

get_effect_type(effect_type_str) ==
    IF effect_type_str \in DOMAIN effect_type_map THEN effect_type_map[effect_type_str]
    ELSE None

\* the Effect object built from the consumable; an unknown kind becomes HEAL
create_effect_from_consumable(consumable, item_name) ==
    Effect(item_name,
           IF consumable.effect_type \in DOMAIN effect_type_map
           THEN effect_type_map[consumable.effect_type] ELSE "HEAL",
           consumable.effect_power, consumable.stat_modifiers,
           consumable.effect_duration)

\* the new Effect object is put on the heap under a reference no object has
new_effect(w, effect) ==
    LET ref == SetMin((0 .. Cardinality(DOMAIN w.heap)) \ DOMAIN w.heap)
    IN  [w |-> [w EXCEPT !.heap = DictPut(@, ref, effect)], ref |-> ref]

Targetable(w) == get_entities_with(w, <<"IsActor", "Position", "Health">>)

actors_at(w, x, y) ==
    {e \in Targetable(w) : get_component(w, e, "Position") = Position(x, y)}

\* the first actor found on the tile, or None
get_entity_at(w, x, y) ==
    IF actors_at(w, x, y) = {} THEN None ELSE SetMin(actors_at(w, x, y))

get_entities_in_radius(w, center_x, center_y, radius) ==
    LET near(e) ==
            get_chebyshev_distance(center_x, center_y, get_component(w, e, "Position").x,
                                   get_component(w, e, "Position").y) <= radius
    IN  SelectSeq(SetIter(Targetable(w)), near)

\* _destroy_item: remove the entity from every component table
destroy_item(w, item_id) == destroy_loop(w, item_id, ComponentTypes)

\* consume_item(world, user, item_id): the effect built from the item is
\* applied to the user, a use is taken and the item without uses destroyed
consume_item(w, user, item_id) ==
    LET consumable == get_component(w, item_id, "Consumable")
        made == new_effect(w, create_effect_from_consumable(consumable,
                               get_component(w, item_id, "Drawable").name))
        r == apply_effect_to_entity(made.w, user, made.ref)
        w1 == [r.w EXCEPT !.components["Consumable"][item_id].uses_remaining = @ - 1]
        w2 == destroy_item(w1, item_id)
    IN  IF ~has_component(w, item_id, "Consumable")
        THEN [w |-> w, ok |-> FALSE, msg |-> "Item is not consumable"]
        ELSE IF ~has_component(w, item_id, "InInventory")
                \/ get_component(w, item_id, "InInventory").owner # user
        THEN [w |-> w, ok |-> FALSE, msg |-> "Item not in inventory"]
        ELSE IF component_for_fails(w, item_id, "Drawable")
        THEN [w |-> Raise(w, "AssertionError"), ok |-> FALSE, msg |-> None]
        ELSE IF Failed(r.w) THEN [w |-> r.w, ok |-> FALSE, msg |-> None]
        ELSE IF consumable.uses_remaining - 1 <= 0
        THEN IF Failed(w2) THEN [w |-> w2, ok |-> FALSE, msg |-> None]
             ELSE [w |-> w2, ok |-> TRUE, msg |-> r.msg]
        ELSE [w |-> w1, ok |-> TRUE, msg |-> r.msg]

\* for entity in entities_hit: apply_effect_to_entity(world, entity, effect)
RECURSIVE apply_to_all(_, _, _)
apply_to_all(w, entities_hit, ref) ==
    IF entities_hit = <<>> \/ Failed(w) THEN w
    ELSE apply_to_all(apply_effect_to_entity(w, Head(entities_hit), ref).w,
                      Tail(entities_hit), ref)

\* create_pool(..., name=pool_name): create_pool has no parameter of that
\* name (effects/pools.py:67-76), so the call raises TypeError
create_pool_named(w, x, y, effect_type, power, source_entity) == Raise(w, "TypeError")

handle_aoe_consumable(w, thrower, item_id, drawable, consumable, target_x, target_y) ==
    LET made == new_effect(w, create_effect_from_consumable(consumable, drawable.name))
        effect_type == get_effect_type(consumable.effect_type)
        entities_hit == get_entities_in_radius(w, target_x, target_y, consumable.radius)
        hit_count == Len(entities_hit)
        spill(w1) ==
            IF Failed(w1) THEN w1
            ELSE IF consumable.creates_pool /\ effect_type # None
            THEN create_pool_named(w1, target_x - consumable.radius,
                                   target_y - consumable.radius, effect_type,
                                   consumable.effect_power, thrower)
            ELSE w1
        raised(w1) == [w |-> w1, ok |-> FALSE, msg |-> Msg("raised", item_id, w1.err, 0)]
        done(w1) ==
            IF Failed(w1) THEN raised(w1)
            ELSE IF Failed(destroy_item(w1, item_id))
            THEN raised(destroy_item(w1, item_id))
            ELSE [w |-> destroy_item(w1, item_id), ok |-> TRUE,
                  msg |-> IF hit_count > 0 THEN Msg("explodes", item_id, "hit", hit_count)
                          ELSE IF consumable.creates_pool
                               THEN Msg("explodes", item_id, "creating pools", 0)
                               ELSE Msg("explodes", item_id, "nothing", 0)]
    IN  done(spill(apply_to_all(made.w, entities_hit, made.ref)))

\* _is_breakable(item) for item = world.get_component(item_id, Item): false
\* for None, else whether the item is of type "consumable"
is_breakable(w, item_id) ==
    IF ~has_component(w, item_id, "Item") THEN FALSE
    ELSE get_component(w, item_id, "Item").item_type = "consumable"

\* _handle_single_target_consumable: the effect goes to the actor on the
\* tile; on a tile without an actor a liquid makes a pool and shatters, a
\* breakable item shatters, any other consumable is destroyed as well
\* ("Threw ..."); the Item component that throw_item read is still the
\* item's when _is_breakable is asked
handle_single_target_consumable(w, thrower, item_id, drawable, consumable, target_x, target_y) ==
    LET target_entity == get_entity_at(w, target_x, target_y)
        effect_type == get_effect_type(consumable.effect_type)
        raised(w1) == [w |-> w1, ok |-> FALSE, msg |-> Msg("raised", item_id, w1.err, 0)]
        destroyed(w1, kind) ==
            IF Failed(w1) THEN raised(w1)
            ELSE IF Failed(destroy_item(w1, item_id))
            THEN raised(destroy_item(w1, item_id))
            ELSE [w |-> destroy_item(w1, item_id), ok |-> TRUE,
                  msg |-> Msg(kind, item_id, drawable.name, 0)]
        shatter(w1) == destroyed(w1, "shatters")
    IN
    IF actors_at(w, target_x, target_y) # {} THEN
        LET made == new_effect(w, create_effect_from_consumable(consumable, drawable.name))
            r == apply_effect_to_entity(made.w, target_entity, made.ref)
        IN  IF Failed(destroy_item(r.w, item_id)) THEN raised(destroy_item(r.w, item_id))
            ELSE [w |-> destroy_item(r.w, item_id), ok |-> TRUE, msg |-> r.msg]
    ELSE IF consumable.creates_pool THEN
        shatter(IF effect_type # None
                THEN create_pool_named(w, target_x, target_y, effect_type,
                                       consumable.effect_power, thrower)
                ELSE w)
    ELSE IF is_breakable(w, item_id) THEN shatter(w)
    ELSE destroyed(w, "threw")

throw_item(w, thrower, item_id, target_x, target_y) ==
    IF ~has_component(w, item_id, "InInventory")
       \/ get_component(w, item_id, "InInventory").owner # thrower
    THEN [w |-> w, ok |-> FALSE, msg |-> Msg("not in inventory", item_id, None, 0)]
    ELSE IF component_for_fails(w, item_id, "Drawable")
    THEN [w |-> Raise(w, "AssertionError"), ok |-> FALSE,
          msg |-> Msg("raised", item_id, "AssertionError", 0)]
    ELSE LET drawable == get_component(w, item_id, "Drawable")
             w1 == remove_component(w, item_id, "InInventory")
             w2 == add_component(add_component(w1, item_id, "Position",
                                     Position(target_x, target_y)),
                                 item_id, "OnGround", Marker)
         IN  IF Failed(w1)
             THEN [w |-> w1, ok |-> FALSE, msg |-> Msg("raised", item_id, w1.err, 0)]
             ELSE IF has_component(w, item_id, "Consumable")
                /\ get_component(w, item_id, "Consumable").radius > 0
             THEN handle_aoe_consumable(w1, thrower, item_id, drawable,
                      get_component(w, item_id, "Consumable"), target_x, target_y)
             ELSE IF has_component(w, item_id, "Consumable")
             THEN handle_single_target_consumable(w1, thrower, item_id, drawable,
                      get_component(w, item_id, "Consumable"), target_x, target_y)
             ELSE [w |-> w2, ok |-> TRUE, msg |-> Msg("threw", item_id, drawable.name, 0)]

(***************************************************************************)
(* Inventory (items/inventory.py) and equipment (items/equipment.py).  A   *)
(* slot of the slot table holds the set of its item: empty for None.       *)
(***************************************************************************)
SLOT_NAMES ==
    {"head", "torso", "main_hand", "off_hand", "legs", "feet", "ring_1", "ring_2",
     "ring_3", "ring_4", "necklace", "cape"}

Inventory(max_slots) == [max_slots |-> max_slots]

EquipmentSlots == [slots |-> [slot \in SLOT_NAMES |-> {}]]

Equipment(slot, base_damage, base_defense) ==
    [slot |-> slot, base_damage |-> base_damage, base_defense |-> base_defense]

Equipped(owner, slot) == [owner |-> owner, slot |-> slot]

get_inventory_items(w, owner) ==
    {item_id \in get_entities_with(w, <<"InInventory", "Item">>) :
        get_component(w, item_id, "InInventory").owner = owner}

get_items_at_position(w, x, y) ==
    {item_id \in get_entities_with(w, <<"OnGround", "Position", "Item">>) :
        get_component(w, item_id, "Position") = Position(x, y)}

RECURSIVE sum_slot_sizes(_, _)
sum_slot_sizes(w, items) ==
    IF items = <<>> THEN 0
    ELSE get_component(w, Head(items), "Item").slot_size + sum_slot_sizes(w, Tail(items))

get_used_slots(w, owner) == sum_slot_sizes(w, SetIter(get_inventory_items(w, owner)))

get_free_slots(w, owner) ==
    get_component(w, owner, "Inventory").max_slots - get_used_slots(w, owner)

can_pickup(w, owner, item_id) ==
    get_free_slots(w, owner) >= get_component(w, item_id, "Item").slot_size

\* a variant of pickup_item without the test of the free slots
pickup_item_unchecked(w, owner, item_id) ==
    LET w1 == add_component(remove_component(remove_component(w, item_id, "OnGround"),
                                             item_id, "Position"),
                            item_id, "InInventory", InInventory(owner))
    IN  [w |-> w1, ok |-> ~Failed(w1)]

pickup_item(w, owner, item_id) ==
    IF component_for_fails(w, item_id, "Item") \/ component_for_fails(w, owner, "Inventory")
    THEN [w |-> Raise(w, "AssertionError"), ok |-> FALSE]
    ELSE IF ~can_pickup(w, owner, item_id) THEN [w |-> w, ok |-> FALSE]
    ELSE LET w1 == add_component(remove_component(remove_component(w, item_id, "OnGround"),
                                                  item_id, "Position"),
                                 item_id, "InInventory", InInventory(owner))
         IN  [w |-> w1, ok |-> ~Failed(w1)]

drop_item(w, owner, item_id, x, y) ==
    IF component_for_fails(w, item_id, "InInventory")
    THEN [w |-> Raise(w, "AssertionError"), ok |-> FALSE]
    ELSE IF get_component(w, item_id, "InInventory").owner # owner
    THEN [w |-> w, ok |-> FALSE]
    ELSE LET w1 == add_component(add_component(remove_component(w, item_id, "InInventory"),
                                               item_id, "OnGround", Marker),
                                 item_id, "Position", Position(x, y))
         IN  [w |-> w1, ok |-> ~Failed(w1)]

RING_SLOTS == <<"ring_1", "ring_2", "ring_3", "ring_4">>

\* the first empty ring slot, ring_1 when all four are taken
first_ring_slot(slots) ==
    LET empty == {i \in 1 .. Len(RING_SLOTS) : slots[RING_SLOTS[i]] = {}}
    IN  IF empty = {} THEN "ring_1" ELSE RING_SLOTS[SetMin(empty)]

can_equip(w, owner, item_id) ==
    LET slot == get_component(w, item_id, "Equipment").slot
    IN  slot = "ring" \/ slot \in DOMAIN get_component(w, owner, "EquipmentSlots").slots

find_available_slot(w, owner, item_id) ==
    LET slot == get_component(w, item_id, "Equipment").slot
    IN  IF slot = "ring"
        THEN first_ring_slot(get_component(w, owner, "EquipmentSlots").slots)
        ELSE slot

unequip_to_inventory(w, owner, slot) ==
    LET held == get_component(w, owner, "EquipmentSlots").slots[slot]
        item_id == SetMin(held)
    IN
    IF component_for_fails(w, owner, "EquipmentSlots")
    THEN [w |-> Raise(w, "AssertionError"), result |-> {}]
    ELSE IF held = {} THEN [w |-> w, result |-> {}]
    ELSE IF component_for_fails(w, item_id, "Item")
            \/ component_for_fails(w, owner, "Inventory")
    THEN [w |-> Raise(w, "AssertionError"), result |-> {}]
    ELSE IF get_free_slots(w, owner) < get_component(w, item_id, "Item").slot_size
    THEN [w |-> w, result |-> {}]
    ELSE LET w1 == add_component(remove_component(w, item_id, "Equipped"), item_id,
                                 "InInventory", InInventory(owner))
         IN  IF Failed(w1) THEN [w |-> w1, result |-> {}]
             ELSE [w |-> [w1 EXCEPT !.components["EquipmentSlots"][owner].slots[slot] =
                                        {}],
                   result |-> held]

\* equip_item(world, owner, item_id) with no target slot
equip_item(w, owner, item_id) ==
    IF component_for_fails(w, owner, "EquipmentSlots")
       \/ component_for_fails(w, item_id, "Equipment")
    THEN [w |-> Raise(w, "AssertionError"), result |-> {}]
    ELSE LET slot == find_available_slot(w, owner, item_id)
             previous == get_component(w, owner, "EquipmentSlots").slots[slot]
             w1 == IF previous # {} THEN unequip_to_inventory(w, owner, slot).w ELSE w
             w2 == add_component(remove_component(w1, item_id, "InInventory"),
                                 item_id, "Equipped", Equipped(owner, slot))
         IN  IF Failed(w2) THEN [w |-> w2, result |-> {}]
             ELSE [w |-> [w2 EXCEPT !.components["EquipmentSlots"][owner].slots[slot] =
                                        {item_id}],
                   result |-> previous]

(***************************************************************************)
(* Menus, popups and the handler stack (ui/menu.py, ui/popup.py,           *)
(* input/input.py, input/handlers.py, input/inventory_handler.py,          *)
(* input/examine_handler.py).  A key is named by its letter; a Popup       *)
(* object is named by a positive number; a menu item's action is the name  *)
(* of the bound method and the item id its lambda captured.  The state of  *)
(* the user interface is the record [w, handler_stack]: the world, whose   *)
(* popup_stack field is UIState.popup_stack, and InputManager's list.      *)
(***************************************************************************)
ALL_MENU_KEYS ==
    <<"a", "b", "c", "d", "e", "f", "g", "h", "i", "j", "k", "l", "m",
      "n", "o", "p", "q", "r", "s", "t", "u", "v", "w", "x", "y", "z">>

TK_ESCAPE == "escape"

MenuItem(label, action, arg, enabled) ==
    [label |-> label, action |-> action, arg |-> arg, enabled |-> enabled]

\* Menu.__init__ / set_reserved_keys: Escape is always reserved
Menu(items, reserved_keys) ==
    [items |-> items, reserved_keys |-> reserved_keys \cup {TK_ESCAPE}]

\* _rebuild_keybinds: the keys that are not reserved, in order; item i gets
\* the i-th of them while they last
available_keys(menu) ==
    SelectSeq(ALL_MENU_KEYS, LAMBDA k : k \notin menu.reserved_keys)

key_to_index(menu) ==
    LET keys == available_keys(menu)
    IN  [i \in 1 .. Min2(Len(menu.items), Len(keys)) |-> keys[i]]

\* no popup (None)
NoPopup == 0

NoMenu == [items |-> <<>>, reserved_keys |-> {}]

InputHandler(kind, keybinds, menu, popup) ==
    [kind |-> kind, keybinds |-> keybinds, menu |-> menu, popup |-> popup,
     popup_pushed |-> FALSE]

\* MainGameHandler.load_keybinds: the keys of its keybinds
MainGameHandler ==
    InputHandler("MainGameHandler",
                 {"up", "down", "left", "right", "k", "j", "h", "l", "y", "u", "b", "n",
                  "g", "i", "e", "m", "x"},
                 NoMenu, NoPopup)

\* MenuHandler.__init__: the parent's keys are reserved in the menu;
\* load_keybinds binds Escape
MenuHandler(kind, menu, popup, parent_handler) ==
    InputHandler(kind, {TK_ESCAPE}, Menu(menu.items, parent_handler.keybinds), popup)

\* ExamineHandler.__init__ and load_keybinds
ExamineHandler(popup) ==
    InputHandler("ExamineHandler", {TK_ESCAPE, "enter", "space"}, NoMenu, popup)

\* a new Popup object: one that neither a handler nor the popup stack holds
new_popup(m) ==
    LET used == Range(m.w.popup_stack) \cup {m.handler_stack[i].popup : i \in DOMAIN m.handler_stack}
    IN  SetMin((1 .. Cardinality(used) + 1) \ used)

\* PopupStack.push
PopupStack_push(w, popup) == [w EXCEPT !.popup_stack = Append(@, popup)]

\* PopupStack.pop: the top popup is removed, nothing when the stack is empty
PopupStack_pop(w) ==
    IF w.popup_stack = <<>> THEN w
    ELSE [w EXCEPT !.popup_stack = SubSeq(@, 1, Len(@) - 1)]

current_handler(m) == m.handler_stack[Len(m.handler_stack)]

ActionResult(m, pop, push_handler) == [m |-> m, pop |-> pop, push_handler |-> push_handler]

ActionResult_no_op(m) == ActionResult(m, FALSE, <<>>)

\* an exception leaves the action: the world keeps what was done before it
ActionRaised(m, w) == ActionResult([m EXCEPT !.w = w], FALSE, <<>>)

\* InventoryHandler._build_inventory_menu: no item without a player, the
\* disabled placeholder for an empty inventory.  For the first item of an
\* inventory it calls component_for of the item's Drawable and Item, then
\* menu.add_item(label, action, enabled=True, color=color): Menu.add_item
\* (ui/menu.py:94-100) has the parameters label, action, enabled and hotkey,
\* so the call raises TypeError.  The result is the exception and the items.
build_inventory_menu(w) ==
    LET players == get_entities_with(w, <<"IsPlayer">>)
        items == SetIter(get_inventory_items(w, SetMin(players)))
    IN  IF players = {} THEN [err |-> NoError, items |-> <<>>]
        ELSE IF items = <<>>
        THEN [err |-> NoError, items |-> <<MenuItem("(empty)", "no_op", None, FALSE)>>]
        ELSE IF component_for_fails(w, items[1], "Drawable")
                \/ component_for_fails(w, items[1], "Item")
        THEN [err |-> "AssertionError", items |-> <<>>]
        ELSE [err |-> "TypeError", items |-> <<>>]

\* MainGameHandler.open_inventory: InventoryHandler(world, popup_stack,
\* parent_handler=self) with self the main game handler
open_inventory(m) ==
    LET w1 == resource_for(m.w, "UIResource")
        menu == build_inventory_menu(m.w)
    IN  IF Failed(w1) THEN ActionRaised(m, w1)
        ELSE IF menu.err # NoError THEN ActionRaised(m, Raise(m.w, menu.err))
        ELSE ActionResult(m, FALSE,
                 <<MenuHandler("InventoryHandler", Menu(menu.items, {}),
                               new_popup(m), MainGameHandler)>>)

\* MainGameHandler.open_main_menu
open_main_menu(m) ==
    LET w1 == resource_for(m.w, "UIResource")
        items == <<MenuItem("Inventory", "open_inventory", None, TRUE),
                   MenuItem("Character", "_not_implemented", None, TRUE),
                   MenuItem("Options", "_not_implemented", None, TRUE),
                   MenuItem("Help", "_show_help", None, TRUE),
                   MenuItem("Quit", "_quit_game", None, TRUE)>>
    IN  IF Failed(w1) THEN ActionRaised(m, w1)
        ELSE ActionResult(m, FALSE,
                 <<MenuHandler("MenuHandler", Menu(items, {}), new_popup(m),
                               MainGameHandler)>>)

\* MainGameHandler._not_implemented
not_implemented(m) ==
    ActionResult_no_op([m EXCEPT !.w = log_add(@, Msg("not_implemented", None, None, 0))])

\* MainGameHandler._show_help: two lines of help
show_help(m) ==
    ActionResult_no_op([m EXCEPT !.w = log_add(log_add(@, Msg("help", None, None, 1)),
                                               Msg("help", None, None, 2))])

\* InventoryHandler._open_item_actions: Equip only for equipment
open_item_actions(m, item_id) ==
    LET w1 == resource_for(m.w, "UIResource")
        equip == IF has_component(m.w, item_id, "Equipment")
                 THEN <<MenuItem("Equip", "_equip_item", item_id, TRUE)>> ELSE <<>>
        items == equip \o <<MenuItem("Drop", "_drop_item", item_id, TRUE),
                            MenuItem("Examine", "_examine_item", item_id, TRUE)>>
    IN  IF Failed(w1) THEN ActionRaised(m, w1)
        ELSE IF component_for_fails(m.w, item_id, "Drawable")
        THEN ActionRaised(m, Raise(m.w, "AssertionError"))
        ELSE ActionResult(m, FALSE,
                 <<MenuHandler("MenuHandler", Menu(items, {}), new_popup(m),
                               current_handler(m))>>)

\* InventoryHandler._drop_item: resource_for(UIResource), next(iter(players))
\* (StopIteration without a player), component_for of the player's Position
\* and of the item's Drawable, drop_item and one of the two messages; the
\* handler is popped, its popup is not
drop_item_action(m, item_id) ==
    LET w1 == resource_for(m.w, "UIResource")
        players == get_entities_with(m.w, <<"IsPlayer">>)
        player == SetMin(players)
        pos == get_component(m.w, player, "Position")
        r == drop_item(m.w, player, item_id, pos.x, pos.y)
        kind == IF r.ok THEN "dropped" ELSE "not_dropped"
    IN  IF Failed(w1) THEN ActionRaised(m, w1)
        ELSE IF players = {} THEN ActionRaised(m, Raise(m.w, "StopIteration"))
        ELSE IF component_for_fails(m.w, player, "Position")
                \/ component_for_fails(m.w, item_id, "Drawable")
        THEN ActionRaised(m, Raise(m.w, "AssertionError"))
        ELSE IF Failed(r.w) THEN ActionRaised(m, r.w)
        ELSE ActionResult([m EXCEPT !.w = log_add(r.w, Msg(kind, item_id, None, 0))],
                          TRUE, <<>>)

\* InventoryHandler._equip_item: resource_for(UIResource), component_for of
\* the item's Drawable, next(iter(players)) (StopIteration without a
\* player), can_equip (component_for of the player's EquipmentSlots and of
\* the item's Equipment), equip_item and its message, then component_for of
\* the Drawable of the item that was in the slot and the second message;
\* the handler is popped, its popup is not
equip_item_action(m, item_id) ==
    LET w1 == resource_for(m.w, "UIResource")
        players == get_entities_with(m.w, <<"IsPlayer">>)
        player == SetMin(players)
        r == equip_item(m.w, player, item_id)
        w2 == log_add(r.w, Msg("equipped", item_id, None, 0))
    IN  IF Failed(w1) THEN ActionRaised(m, w1)
        ELSE IF component_for_fails(m.w, item_id, "Drawable")
        THEN ActionRaised(m, Raise(m.w, "AssertionError"))
        ELSE IF players = {} THEN ActionRaised(m, Raise(m.w, "StopIteration"))
        ELSE IF component_for_fails(m.w, player, "EquipmentSlots")
                \/ component_for_fails(m.w, item_id, "Equipment")
        THEN ActionRaised(m, Raise(m.w, "AssertionError"))
        ELSE IF ~can_equip(m.w, player, item_id)
        THEN ActionResult([m EXCEPT !.w = log_add(@, Msg("cannot_equip", item_id, None, 0))],
                          TRUE, <<>>)
        ELSE IF Failed(r.w) THEN ActionRaised(m, r.w)
        ELSE IF r.result = {} THEN ActionResult([m EXCEPT !.w = w2], TRUE, <<>>)
        ELSE IF component_for_fails(w2, SetMin(r.result), "Drawable")
        THEN ActionRaised(m, Raise(w2, "AssertionError"))
        ELSE ActionResult([m EXCEPT !.w = log_add(w2, Msg("unequipped", SetMin(r.result),
                                                          None, 0))],
                          TRUE, <<>>)

\* InventoryHandler._examine_item: create_examine_popup reads the item's
\* Drawable and Item
examine_item(m, item_id) ==
    LET w1 == resource_for(m.w, "UIResource")
    IN  IF Failed(w1) THEN ActionRaised(m, w1)
        ELSE IF component_for_fails(m.w, item_id, "Drawable")
                \/ component_for_fails(m.w, item_id, "Item")
        THEN ActionRaised(m, Raise(m.w, "AssertionError"))
        ELSE ActionResult(m, FALSE, <<ExamineHandler(new_popup(m))>>)

\* MenuHandler._close_menu / ExamineHandler._close: the top popup is popped
\* when the handler has a popup and the stack is not empty
close_menu(m) ==
    ActionResult(IF current_handler(m).popup # NoPopup
                 THEN [m EXCEPT !.w = PopupStack_pop(@)] ELSE m,
                 TRUE, <<>>)

\* MainGameHandler.load_keybinds: the direction of each movement key
MOVE_KEYS ==
    [key \in {"up", "down", "left", "right", "k", "j", "h", "l", "y", "u", "b", "n"} |->
        CASE key \in {"up", "k"} -> <<0, -1>>
          [] key \in {"down", "j"} -> <<0, 1>>
          [] key \in {"left", "h"} -> <<-1, 0>>
          [] key \in {"right", "l"} -> <<1, 0>>
          [] key = "y" -> <<-1, -1>>
          [] key = "u" -> <<1, -1>>
          [] key = "b" -> <<-1, 1>>
          [] key = "n" -> <<1, 1>>]

\* MainGameHandler._move: a MoveIntent on the first player; next(iter(players))
\* raises StopIteration when there is no player
MainGameHandler_move(m, dx, dy) ==
    LET players == get_entities_with(m.w, <<"IsPlayer">>)
    IN  IF players = {} THEN ActionRaised(m, Raise(m.w, "StopIteration"))
        ELSE ActionResult_no_op([m EXCEPT !.w = add_component(@, SetMin(players),
                                     "MoveIntent", MoveIntent(dx, dy, TRUE))])

\* MainGameHandler._open_pickup_menu: one menu item for each item at the feet
open_pickup_menu(m, items) ==
    LET w1 == resource_for(m.w, "UIResource")
    IN  IF Failed(w1) THEN ActionRaised(m, w1)
        ELSE IF \E i \in DOMAIN items : component_for_fails(m.w, items[i], "Drawable")
        THEN ActionRaised(m, Raise(m.w, "AssertionError"))
        ELSE ActionResult(m, FALSE,
                 <<MenuHandler("MenuHandler",
                               Menu([i \in DOMAIN items |->
                                        MenuItem(get_component(m.w, items[i], "Drawable").name,
                                                 "_do_pickup", items[i], TRUE)], {}),
                               new_popup(m), MainGameHandler)>>)

\* the message of a pickup that was made or refused
log_pickup(r, item_id) ==
    log_add(r.w, Msg(IF r.ok THEN "picked_up" ELSE "inventory_full", item_id, None, 0))

\* MainGameHandler._do_pickup: the handler is popped, its popup is not
do_pickup(m, item_id) ==
    LET w1 == resource_for(m.w, "UIResource")
        players == get_entities_with(m.w, <<"IsPlayer">>)
        r == pickup_item(m.w, SetMin(players), item_id)
    IN  IF Failed(w1) THEN ActionRaised(m, w1)
        ELSE IF players = {} THEN ActionRaised(m, Raise(m.w, "StopIteration"))
        ELSE IF component_for_fails(m.w, item_id, "Drawable")
        THEN ActionRaised(m, Raise(m.w, "AssertionError"))
        ELSE IF Failed(r.w) THEN ActionRaised(m, r.w)
        ELSE ActionResult([m EXCEPT !.w = log_pickup(r, item_id)], TRUE, <<>>)

\* MainGameHandler.pickup_item: the item at the player's feet is picked up,
\* several items open the pickup menu
MainGameHandler_pickup_item(m) ==
    LET w1 == resource_for(m.w, "UIResource")
        players == get_entities_with(m.w, <<"IsPlayer">>)
        player == SetMin(players)
        pos == get_component(m.w, player, "Position")
        items == SetIter(get_items_at_position(m.w, pos.x, pos.y))
        r == pickup_item(m.w, player, items[1])
    IN  IF Failed(w1) THEN ActionRaised(m, w1)
        ELSE IF players = {} THEN ActionRaised(m, Raise(m.w, "StopIteration"))
        ELSE IF component_for_fails(m.w, player, "Position")
        THEN ActionRaised(m, Raise(m.w, "AssertionError"))
        ELSE IF items = <<>>
        THEN ActionResult_no_op([m EXCEPT !.w = log_add(@, Msg("nothing_here", None, None, 0))])
        ELSE IF Len(items) > 1 THEN open_pickup_menu(m, items)
        ELSE IF component_for_fails(m.w, items[1], "Drawable")
        THEN ActionRaised(m, Raise(m.w, "AssertionError"))
        ELSE IF Failed(r.w) THEN ActionRaised(m, r.w)
        ELSE ActionResult_no_op([m EXCEPT !.w = log_pickup(r, items[1])])

\* items/equipment.py:26-39
SLOT_DISPLAY_ORDER ==
    <<"head", "necklace", "cape", "torso", "main_hand", "off_hand", "legs",
      "ring_1", "ring_2", "feet", "ring_3", "ring_4">>

\* EquipmentHandler._build_equipment_menu: no item without a player;
\* component_for of the player's EquipmentSlots; a disabled item for each
\* empty slot.  For the first filled slot of SLOT_DISPLAY_ORDER it calls
\* component_for of the item's Drawable and Item, then menu.add_item(...,
\* enabled=True, color=color), a TypeError as in _build_inventory_menu.
\* The result is the exception and the items.
build_equipment_menu(w) ==
    LET players == get_entities_with(w, <<"IsPlayer">>)
        slots == get_component(w, SetMin(players), "EquipmentSlots").slots
        filled == SelectSeq(SLOT_DISPLAY_ORDER, LAMBDA slot : slots[slot] # {})
        item_id == SetMin(slots[filled[1]])
    IN  IF players = {} THEN [err |-> NoError, items |-> <<>>]
        ELSE IF component_for_fails(w, SetMin(players), "EquipmentSlots")
        THEN [err |-> "AssertionError", items |-> <<>>]
        ELSE IF filled = <<>>
        THEN [err |-> NoError,
              items |-> [i \in DOMAIN SLOT_DISPLAY_ORDER |->
                            MenuItem(SLOT_DISPLAY_ORDER[i], "no_op", None, FALSE)]]
        ELSE IF component_for_fails(w, item_id, "Drawable")
                \/ component_for_fails(w, item_id, "Item")
        THEN [err |-> "AssertionError", items |-> <<>>]
        ELSE [err |-> "TypeError", items |-> <<>>]

\* MainGameHandler.open_equipment: EquipmentHandler(world, popup_stack,
\* parent_handler=self)
open_equipment(m) ==
    LET w1 == resource_for(m.w, "UIResource")
        menu == build_equipment_menu(m.w)
    IN  IF Failed(w1) THEN ActionRaised(m, w1)
        ELSE IF menu.err # NoError THEN ActionRaised(m, Raise(m.w, menu.err))
        ELSE ActionResult(m, FALSE,
                 <<MenuHandler("EquipmentHandler", Menu(menu.items, {}),
                               new_popup(m), MainGameHandler)>>)

\* EquipmentHandler._open_slot_actions
open_slot_actions(m, slot, item_id) ==
    LET w1 == resource_for(m.w, "UIResource")
        items == <<MenuItem("Unequip", "_unequip_item", <<slot, item_id>>, TRUE),
                   MenuItem("Examine", "_examine_item", item_id, TRUE)>>
    IN  IF Failed(w1) THEN ActionRaised(m, w1)
        ELSE IF component_for_fails(m.w, item_id, "Drawable")
        THEN ActionRaised(m, Raise(m.w, "AssertionError"))
        ELSE ActionResult(m, FALSE,
                 <<MenuHandler("MenuHandler", Menu(items, {}), new_popup(m),
                               current_handler(m))>>)

\* EquipmentHandler._unequip_item: the handler is popped, its popup is not
unequip_item_action(m, slot, item_id) ==
    LET w1 == resource_for(m.w, "UIResource")
        players == get_entities_with(m.w, <<"IsPlayer">>)
        r == unequip_to_inventory(m.w, SetMin(players), slot)
        kind == IF r.result # {} THEN "unequipped" ELSE "inventory_full"
    IN  IF Failed(w1) THEN ActionRaised(m, w1)
        ELSE IF component_for_fails(m.w, item_id, "Drawable")
        THEN ActionRaised(m, Raise(m.w, "AssertionError"))
        ELSE IF players = {} THEN ActionRaised(m, Raise(m.w, "StopIteration"))
        ELSE IF Failed(r.w) THEN ActionRaised(m, r.w)
        ELSE ActionResult([m EXCEPT !.w = log_add(r.w, Msg(kind, item_id, None, 0))],
                          TRUE, <<>>)

\* MainGameHandler.start_look_mode: LookHandler.__init__ finds the player's
\* Position, then calls get_resource(LookModeResource), which raises
start_look_mode(m) ==
    LET w1 == resource_for(m.w, "UIResource")
    IN  IF Failed(w1) THEN ActionRaised(m, w1)
        ELSE IF get_entities_with(m.w, <<"IsPlayer", "Position">>) = {}
        THEN ActionRaised(m, Raise(m.w, "StopIteration"))
        ELSE ActionRaised(m, get_resource(m.w, "LookModeResource").w)

\* MainGameHandler._quit_game: exit() raises SystemExit
quit_game(m) == ActionRaised(m, Raise(m.w, "SystemExit"))

\* MenuItem.action(): the bound method or lambda of the item
item_action(m, item) ==
    CASE item.action = "open_inventory" -> open_inventory(m)
      [] item.action = "_not_implemented" -> not_implemented(m)
      [] item.action = "_show_help" -> show_help(m)
      [] item.action = "_open_item_actions" -> open_item_actions(m, item.arg)
      [] item.action = "_drop_item" -> drop_item_action(m, item.arg)
      [] item.action = "_equip_item" -> equip_item_action(m, item.arg)
      [] item.action = "_examine_item" -> examine_item(m, item.arg)
      [] item.action = "_do_pickup" -> do_pickup(m, item.arg)
      [] item.action = "_open_slot_actions" -> open_slot_actions(m, item.arg[1], item.arg[2])
      [] item.action = "_unequip_item" -> unequip_item_action(m, item.arg[1], item.arg[2])
      [] item.action = "_quit_game" -> quit_game(m)
      [] OTHER -> ActionResult_no_op(m)

\* InputHandler.handle_key of the three handler classes: MenuHandler tries
\* Menu.handle_key first (an enabled item bound to the key), then the
\* keybinds; an unbound key is a no-op
handle_key(m, key) ==
    LET handler == current_handler(m)
        bound == key_to_index(handler.menu)
        index == {i \in DOMAIN bound : bound[i] = key /\ handler.menu.items[i].enabled}
    IN  IF index # {} THEN item_action(m, handler.menu.items[SetMin(index)])
        ELSE IF key \notin handler.keybinds THEN ActionResult_no_op(m)
        ELSE IF handler.kind = "MainGameHandler"
        THEN CASE key \in DOMAIN MOVE_KEYS -> MainGameHandler_move(m, MOVE_KEYS[key][1],
                                                                 MOVE_KEYS[key][2])
               [] key = "g" -> MainGameHandler_pickup_item(m)
               [] key = "i" -> open_inventory(m)
               [] key = "e" -> open_equipment(m)
               [] key = "m" -> open_main_menu(m)
               [] key = "x" -> start_look_mode(m)
        ELSE close_menu(m)

\* on_enter of the current handler: MenuHandler pushes its popup every
\* time, ExamineHandler once, MainGameHandler never
on_enter(m) ==
    LET handler == current_handler(m)
        top == Len(m.handler_stack)
    IN  IF handler.popup = NoPopup THEN m
        ELSE IF handler.kind = "ExamineHandler"
        THEN IF handler.popup_pushed THEN m
             ELSE [m EXCEPT !.w = PopupStack_push(@, handler.popup),
                            !.handler_stack[top].popup_pushed = TRUE]
        ELSE [m EXCEPT !.w = PopupStack_push(@, handler.popup)]

\* InputManager.push_handler: on_exit of the current handler does nothing in
\* these classes
push_handler(m, handler) ==
    on_enter([m EXCEPT !.handler_stack = Append(@, handler)])

\* InputManager.pop_handler: the last handler stays
pop_handler(m) ==
    IF Len(m.handler_stack) > 1
    THEN on_enter([m EXCEPT !.handler_stack = SubSeq(@, 1, Len(@) - 1)])
    ELSE m

\* InputManager.process_key: the action, then the pop, then the push; an
\* exception of the action leaves process_key before either
process_key(m, key) ==
    LET result == handle_key(m, key)
        m1 == IF result.pop THEN pop_handler(result.m) ELSE result.m
    IN  IF Failed(result.m.w) THEN result.m
        ELSE IF result.push_handler # <<>> THEN push_handler(m1, result.push_handler[1])
        ELSE m1

(***************************************************************************)
(* MovementSystem (ecs/systems.py).                                        *)
(***************************************************************************)
try_move(new_x, new_y, game_map) == ~blocks_movement(game_map, new_x, new_y)

\* a variant that consumes the turn whether or not the move succeeds
move_entity_always_turn(w, entity, game_map) ==
    LET intent == get_component(w, entity, "MoveIntent")
        pos == get_component(w, entity, "Position")
        new_x == pos.x + intent.dx
        new_y == pos.y + intent.dy
        w1 == IF try_move(new_x, new_y, game_map)
              THEN [w EXCEPT !.components["Position"][entity] = Position(new_x, new_y)]
              ELSE w
        w2 == IF intent.consumes_turn
              THEN add_component(w1, entity, "TurnConsumed", Marker) ELSE w1
    IN  remove_component(w2, entity, "MoveIntent")

move_entity(w, entity, game_map) ==
    LET intent == get_component(w, entity, "MoveIntent")
        pos == get_component(w, entity, "Position")
        new_x == pos.x + intent.dx
        new_y == pos.y + intent.dy
        w1 == IF try_move(new_x, new_y, game_map)
              THEN LET moved == [w EXCEPT !.components["Position"][entity] =
                                               Position(new_x, new_y)]
                   IN  IF intent.consumes_turn
                       THEN add_component(moved, entity, "TurnConsumed", Marker)
                       ELSE moved
              ELSE w
    IN  remove_component(w1, entity, "MoveIntent")

RECURSIVE move_entities(_, _, _)
move_entities(w, todo, game_map) ==
    IF todo = <<>> \/ Failed(w) THEN w
    ELSE move_entities(move_entity(w, Head(todo), game_map), Tail(todo), game_map)

\* MovementSystem.update with the map the MapResource holds
MovementSystem_update_on(w, game_map) ==
    LET move(w1) ==
            IF Failed(w1) THEN w1
            ELSE move_entities(w1,
                     SetIter(get_entities_with(w1, <<"MoveIntent", "Position">>)), game_map)
    IN  move(resource_for(w, "MapResource"))

MovementSystem_update(w) == MovementSystem_update_on(w, GameMap)

(***************************************************************************)
(* The camera (camera/camera.py), the visibility grids of the map          *)
(* (map/map.py) and the field of view (camera/utils.py).                   *)
(***************************************************************************)
\* Camera(width, height, map_width, map_height) as main.py:159 makes it, the
\* viewport smaller than the map; here a viewport of 2 x 2 tiles over the
\* arena of the frame loop
Camera == [width |-> 2, height |-> 2, map_width |-> GameMap.width, map_height |-> GameMap.height]

\* Camera.update: the viewport is centred on the target and kept on the map
\* (Camera._clamp)
Camera_update(w, target_x, target_y) ==
    LET clamp(value, min_value, max_value) == Max2(min_value, Min2(value, max_value))
    IN  IF Failed(w) THEN w
        ELSE [w EXCEPT !.camera =
                 [x |-> clamp(target_x - (Camera.width \div 2), 0,
                              Max2(0, Camera.map_width - Camera.width)),
                  y |-> clamp(target_y - (Camera.height \div 2), 0,
                              Max2(0, Camera.map_height - Camera.height))]]

\* Camera.get_visible_bounds
get_visible_bounds(camera) ==
    [start_x |-> camera.x, start_y |-> camera.y,
     end_x |-> Min2(camera.x + Camera.width, Camera.map_width),
     end_y |-> Min2(camera.y + Camera.height, Camera.map_height)]

\* camera/utils.py:8: the default radius of compute_fov
FOV_RADIUS == 8

\* tcod.map.compute_fov(transparency, pov, radius, light_walls=True,
\* algorithm=FOV_SYMMETRIC_SHADOWCAST): the library is no part of the
\* repository; it is modelled as symmetric shadow casting.  From the viewer
\* each of the four quadrants is scanned row by row, a row of depth d
\* between two slopes (fractions <<numerator, denominator>>): a wall in the
\* row is lit, a floor tile is lit when its centre lies between the slopes,
\* a wall after floor ends the part of the next row that is scanned, floor
\* after a wall raises the low slope.  Tiles outside the array are skipped.
\* The viewer's tile is lit; a viewer outside the array lights nothing.
\* The result is the set of the lit tiles within the radius.
tcod_compute_fov(transparency, width, height, pov, radius) ==
    LET inside(t) == 0 <= t[1] /\ t[1] < width /\ 0 <= t[2] /\ t[2] < height
        \* floor(depth * slope + 1/2) and ceil(depth * slope - 1/2)
        round_ties_up(depth, slope) ==
            ((2 * depth * slope[1]) + slope[2]) \div (2 * slope[2])
        round_ties_down(depth, slope) ==
            0 - ((slope[2] - (2 * depth * slope[1])) \div (2 * slope[2]))
        slope_of(depth, column) == <<(2 * column) - 1, 2 * depth>>
        is_symmetric(depth, low, high, column) ==
            /\ column * low[2] >= depth * low[1]
            /\ column * high[2] <= depth * high[1]
        tile(quadrant, depth, column) ==
            CASE quadrant = "north" -> <<pov[1] + column, pov[2] - depth>>
              [] quadrant = "south" -> <<pov[1] + column, pov[2] + depth>>
              [] quadrant = "east" -> <<pov[1] + depth, pov[2] + column>>
              [] quadrant = "west" -> <<pov[1] - depth, pov[2] + column>>
        RECURSIVE scan(_, _, _, _, _, _)
        scan(quadrant, depth, low, high, column, prev) ==
            LET t == tile(quadrant, depth, column)
                wall == ~transparency[t]
                low1 == IF prev = "wall" /\ ~wall THEN slope_of(depth, column) ELSE low
                lit == IF wall \/ is_symmetric(depth, low, high, column) THEN {t} ELSE {}
                next_row == IF prev = "floor" /\ wall
                            THEN scan(quadrant, depth + 1, low1, slope_of(depth, column),
                                      round_ties_up(depth + 1, low1), "none")
                            ELSE {}
            IN  IF column > round_ties_down(depth, high)
                THEN IF prev = "floor"
                     THEN scan(quadrant, depth + 1, low, high,
                               round_ties_up(depth + 1, low), "none")
                     ELSE {}
                ELSE IF ~inside(t) THEN scan(quadrant, depth, low, high, column + 1, prev)
                ELSE lit \cup next_row
                     \cup scan(quadrant, depth, low1, high, column + 1,
                               IF wall THEN "wall" ELSE "floor")
        lit_tiles ==
            {pov} \cup UNION {scan(quadrant, 1, <<-1, 1>>, <<1, 1>>, -1, "none") :
                                quadrant \in {"north", "east", "south", "west"}}
        near(t) ==
            ((t[1] - pov[1]) * (t[1] - pov[1])) + ((t[2] - pov[2]) * (t[2] - pov[2]))
                <= radius * radius
    IN  IF ~inside(pov) THEN {} ELSE {t \in lit_tiles : radius <= 0 \/ near(t)}

\* compute_fov (camera/utils.py): clear_visible, the transparency of every
\* tile of the map (get_transparency_map), the field of view from the
\* viewer, then set_visible for every lit tile, which marks it explored
compute_fov(w, game_map, player_x, player_y) ==
    LET tiles == (0 .. game_map.width - 1) \X (0 .. game_map.height - 1)
        transparency == [t \in tiles |-> ~blocks_sight(game_map, t[1], t[2]).value]
        visible_tiles == tcod_compute_fov(transparency, game_map.width, game_map.height,
                                          <<player_x, player_y>>, FOV_RADIUS)
    IN  IF Failed(w) THEN w
        ELSE [w EXCEPT !.visible = visible_tiles \cap tiles,
                       !.explored = @ \cup (visible_tiles \cap tiles)]

\* RenderSystem.update fetches its resources, then draws the items on the
\* ground and the actors the queries return; it changes nothing
RenderSystem_update(w) ==
    resource_for(resource_for(resource_for(w, "TerminalResource"), "CameraResource"),
                 "MapResource")

\* PoolRenderSystem.update: the same resources, then the pools are drawn
PoolRenderSystem_update(w) ==
    resource_for(resource_for(resource_for(w, "TerminalResource"), "CameraResource"),
                 "MapResource")

\* render_map (map/utils.py): the tiles inside the camera's bounds, row by
\* row; get_tile reads self.tiles[y][x] (IndexError past the lists), and
\* for a visible tile terminal.draw_glyph(x, y, glyph, 0) is called, which
\* takes (x, y, glyph): TypeError.  The first tile that raises ends it.
render_map(w) ==
    LET b == get_visible_bounds(w.camera)
        \* GameMap.is_visible: False outside the map
        is_visible(x, y) == in_bounds(GameMap, x, y) /\ <<x, y>> \in w.visible
        columns == b.end_x - b.start_x
        cells == IF columns <= 0 \/ b.end_y <= b.start_y THEN <<>>
                 ELSE [i \in 1 .. columns * (b.end_y - b.start_y) |->
                          <<b.start_x + ((i - 1) % columns),
                            b.start_y + ((i - 1) \div columns)>>]
        off_map(t) == list_index_fails(t[2], GameMap.height)
                      \/ list_index_fails(t[1], GameMap.width)
        raising == {i \in DOMAIN cells :
                       off_map(cells[i]) \/ is_visible(cells[i][1], cells[i][2])}
    IN  IF Failed(w) \/ raising = {} THEN w
        ELSE IF off_map(cells[SetMin(raising)]) THEN Raise(w, "IndexError")
        ELSE Raise(w, "TypeError")

MapRenderSystem_update(w) ==
    render_map(resource_for(resource_for(resource_for(w, "TerminalResource"),
                                         "MapResource"), "CameraResource"))

\* LookCursorRenderSystem.update starts with resource_for(LookModeResource)
LookCursorRenderSystem_update(w) == resource_for(w, "LookModeResource")

\* TargetCursorRenderSystem.update starts with resource_for(TargetModeResource)
\* and returns when the target mode is not active; nothing activates it here
TargetCursorRenderSystem_update(w) == resource_for(w, "TargetModeResource")

\* the components StatsPanel.render_content requires of the player, in the
\* order of its component_for calls
STATS_PANEL_COMPONENTS == <<"Experience", "Stats", "Health", "Mana", "Inventory">>

\* StatsPanel.render_content (ui/panel.py:64-163): nothing is drawn without a
\* player; hp_pct divides by the player's max_hp
StatsPanel_render_content(w) ==
    IF Failed(w) \/ get_entities_with(w, <<"IsPlayer">>) = {} THEN w
    ELSE LET player == SetMin(get_entities_with(w, <<"IsPlayer">>))
             missing == {i \in DOMAIN STATS_PANEL_COMPONENTS :
                            component_for_fails(w, player, STATS_PANEL_COMPONENTS[i])}
         IN  IF missing # {} /\ SetMin(missing) <= 3 THEN Raise(w, "AssertionError")
             ELSE IF max_hp(get_component(w, player, "Health"),
                            get_component(w, player, "Stats"),
                            get_component(w, player, "Experience").level) = 0
             THEN Raise(w, "ZeroDivisionError")
             ELSE IF missing # {} THEN Raise(w, "AssertionError")
             ELSE w

\* UIRenderSystem.update: the panels, then the pop-ups of the stack are drawn
UIRenderSystem_update(w) ==
    StatsPanel_render_content(resource_for(resource_for(w, "TerminalResource"),
                                           "UIResource"))

(***************************************************************************)
(* SystemScheduler (ecs/systems.py).                                       *)
(***************************************************************************)
PhaseNames == <<"input", "ai", "action", "resolution", "cleanup", "render">>

\* the System classes of ecs/systems.py and effects/systems.py
SystemNames ==
    {"RenderSystem", "LookCursorRenderSystem", "TargetCursorRenderSystem",
     "UIRenderSystem", "MovementSystem", "MapRenderSystem", "PoolRenderSystem",
     "EffectTickSystem", "GroundPoolSystem"}

NewScheduler == [p \in Range(PhaseNames) |-> <<>>]

add_system(phases, system, phase) == [phases EXCEPT ![phase] = Append(@, system)]

System_update(system, w) ==
    CASE system = "MovementSystem" -> MovementSystem_update(w)
      [] system = "EffectTickSystem" -> EffectTickSystem_update(w)
      [] system = "GroundPoolSystem" -> GroundPoolSystem_update(w)
      [] system = "RenderSystem" -> RenderSystem_update(w)
      [] system = "PoolRenderSystem" -> PoolRenderSystem_update(w)
      [] system = "MapRenderSystem" -> MapRenderSystem_update(w)
      [] system = "UIRenderSystem" -> UIRenderSystem_update(w)
      [] system = "LookCursorRenderSystem" -> LookCursorRenderSystem_update(w)
      [] system = "TargetCursorRenderSystem" -> TargetCursorRenderSystem_update(w)

\* for phase_name in self.phases: for system in self.phases[phase_name]
RECURSIVE phase_order(_, _)
phase_order(phases, names) ==
    IF names = <<>> THEN <<>>
    ELSE phases[Head(names)] \o phase_order(phases, Tail(names))

\* a variant of the system loop that goes on after a system has failed
RECURSIVE run_systems_resume(_, _, _)
run_systems_resume(w, todo, trace) ==
    IF todo = <<>> THEN [w |-> w, trace |-> trace]
    ELSE run_systems_resume(
             System_update(Head(todo), IF Failed(w) THEN [w EXCEPT !.err = NoError] ELSE w),
             Tail(todo),
             Append(trace, [system |-> Head(todo),
                            turn |-> get_entities_with(w, <<"TurnConsumed">>) # {}]))

\* trace: the systems in the order they ran, each with whether a
\* TurnConsumed marker was in the store when it started
RECURSIVE run_systems(_, _, _)
run_systems(w, todo, trace) ==
    IF todo = <<>> \/ Failed(w) THEN [w |-> w, trace |-> trace]
    ELSE run_systems(System_update(Head(todo), w), Tail(todo),
             Append(trace, [system |-> Head(todo),
                            turn |-> get_entities_with(w, <<"TurnConsumed">>) # {}]))

\* a variant of update that visits the phases in the order of their names
scheduler_update_by_name(w, phases) ==
    run_systems(w, phase_order(phases, <<"action", "ai", "cleanup", "input", "render",
                                         "resolution">>), <<>>)

scheduler_update(w, phases) == run_systems(w, phase_order(phases, PhaseNames), <<>>)


(***************************************************************************)
(* The program state.  world is the World object; phases is the            *)
(* scheduler's table and registration the add_system calls that built it;  *)
(* pc is the position of the driver loop of main.py; handler_stack is the  *)
(* list of InputManager, left empty where the keys reach the world         *)
(* directly.  The other variables                                          *)
(* record history for the properties: trace is what the last update ran,   *)
(* before is the world as the last operation found it, last names that     *)
(* operation, turn counts the resolved turns, applied the duration effects *)
(* applied and pools lists the pools put on the map; solo remembers the    *)
(* actor the effects of this behaviour are applied to and, while valid,    *)
(* the POISON effect that was applied to it when it carried no effect,     *)
(* until another effect is applied.                                        *)
(***************************************************************************)
VARIABLES world, phases, registration, pc, trace, before, last, turn, applied, solo,
          pools, handler_stack

vars == <<world, phases, registration, pc, trace, before, last, turn, applied, solo,
         pools, handler_stack>>

\* the id of the first entity (ecs/world.py:12), the player of main.py
Player == 0

\* a second actor
Monster == Player + 1

\* the kinds and powers of the duration effects applied
EffectChoices == {<<"POISON", 5>>, <<"POISON", 10>>, <<"REGEN", 5>>}

Durations == 1 .. MaxDuration

PoolKinds == {"HEAL", "POISON"}

\* the movement keys of the model: north, west and east of the eight
\* bound directions
MoveKeys == {"up", "left", "right"}

\* a key the main game handler does not bind
OtherKeys == {"space"}

PoolPowers == {10}

FloorTiles ==
    {t \in (0 .. GameMap.width - 1) \X (0 .. GameMap.height - 1) :
        get_tile(GameMap, t[1], t[2]) = "FLOOR"}

RECURSIVE add_components(_, _, _)
add_components(w, entity, comps) ==
    IF comps = <<>> THEN w
    ELSE add_components(add_component(w, entity, Head(comps)[1], Head(comps)[2]),
                        entity, Tail(comps))

\* main.py:171-180: the components of the player
PLAYER_COMPONENTS ==
    << <<"IsPlayer", Marker>>, <<"IsActor", Marker>>,
       <<"Position", Position(1, 1)>>, <<"Drawable", Drawable("Player")>>,
       <<"Stats", Stats(10, 10)>>, <<"Health", Health(30, 20)>>,
       <<"Mana", Mana(15, 10)>>, <<"Experience", Experience(1)>>,
       <<"Inventory", Inventory(20)>>, <<"EquipmentSlots", EquipmentSlots>> >>

\* main.py:38-145: the items create_test_items puts on the ground
TEST_ITEMS ==
    LET on_ground(name, x, y) ==
            << <<"Drawable", Drawable(name)>>, <<"Position", Position(x, y)>>,
               <<"OnGround", Marker>> >>
        item(item_type, base_value) ==
            <<"Item", [Item(item_type, 1) EXCEPT !.base_value = base_value]>>
        potion(kind, power, name, x, y) ==
            << item("consumable", 25),
               <<"Consumable", Consumable(kind, power, FALSE, 0, 0)>> >>
            \o on_ground(name, x, y)
        gear(base_value, slot, base_damage, base_defense, name, x, y) ==
            << item("equipment", base_value),
               <<"Equipment", Equipment(slot, base_damage, base_defense)>> >>
            \o on_ground(name, x, y)
        treasure(base_value, name, x, y) ==
            << item("treasure", base_value) >> \o on_ground(name, x, y)
    IN  << potion("heal", 20, "Health Potion", 3, 1),
           potion("restore_mana", 15, "Mana Potion", 3, 2),
           gear(50, "main_hand", 5, 0, "Short Sword", 2, 2),
           gear(30, "main_hand", 3, 0, "Dagger", 4, 3),
           gear(75, "torso", 0, 3, "Leather Armor", 5, 2),
           gear(40, "head", 0, 2, "Iron Helmet", 5, 3),
           gear(35, "off_hand", 0, 2, "Wooden Shield", 6, 2),
           gear(25, "feet", 0, 1, "Leather Boots", 6, 3),
           gear(60, "ring", 0, 0, "Silver Ring", 7, 2),
           gear(80, "necklace", 0, 0, "Gold Necklace", 7, 3),
           gear(45, "cape", 0, 1, "Traveler's Cloak", 8, 2),
           treasure(10, "Gold Coins", 1, 2), treasure(100, "Ruby", 8, 3) >>

\* an entity made as main.py makes it: create_entity, then add_component
\* for each component on the id it returned
spawn(w, comps) ==
    LET r == create_entity(w)
    IN  IF Failed(r.w) THEN r.w ELSE add_components(r.w, r.id, comps)

RECURSIVE create_test_items(_, _)
create_test_items(w, items) ==
    IF items = <<>> \/ Failed(w) THEN w
    ELSE create_test_items(spawn(w, Head(items)), Tail(items))

\* main.py:189-192
MainRegistration ==
    << <<"MapRenderSystem", "render">>, <<"RenderSystem", "render">>,
       <<"UIRenderSystem", "render">>, <<"MovementSystem", "action">> >>

\* the registration the turn is checked under: main.py registers no system
\* of effects/systems.py, so EffectTickSystem and GroundPoolSystem are put
\* into the resolution phase their docstrings name, next to the movement
\* and a render system
TurnRegistration ==
    << <<"RenderSystem", "render">>, <<"MovementSystem", "action">>,
       <<"EffectTickSystem", "resolution">>, <<"GroundPoolSystem", "resolution">> >>

\* message_log.add of main.py, on the log object itself
MessageLog_add(w, message) == IF Failed(w) THEN w ELSE [w EXCEPT !.log = Append(@, message)]

RECURSIVE register_all(_, _)
register_all(phases_, todo) ==
    IF todo = <<>> THEN phases_
    ELSE register_all(add_system(phases_, Head(todo)[1], Head(todo)[2]), Tail(todo))

\* main.py:148-206 with the World w that World() returns at line 162.  The
\* lines before build the terminal, the layout and the camera and call
\* camera.set_screen_offset (line 160), a method the class Camera does not
\* have: AttributeError, before the World is made, nothing registered and
\* no handler pushed.  The lines after it: the resources, the input
\* manager, the player, the test items, the camera moved to the player, the
\* systems, the map, the two messages and the first update.  The result is
\* the world, the scheduler's table and the handler stack.
main_setup(w) ==
    LET w1 == add_resource(add_resource(add_resource(w, "TerminalResource"),
                                        "CameraResource"), "UIResource")
        w2 == Camera_update(create_test_items(spawn(w1, PLAYER_COMPONENTS), TEST_ITEMS),
                            1, 1)
        w3 == MessageLog_add(MessageLog_add(add_resource(w2, "MapResource"),
                                            Msg("welcome", None, None, 0)),
                             Msg("welcome", None, None, 1))
        table == register_all(NewScheduler, MainRegistration)
        \* the methods of the class Camera (camera/camera.py)
        CameraMethods ==
            {"__init__", "update", "_clamp", "world_to_screen", "screen_to_world",
             "is_visible", "get_visible_bounds"}
    IN  IF "set_screen_offset" \notin CameraMethods
        THEN [w |-> Raise(w, "AttributeError"), phases |-> NewScheduler,
              handler_stack |-> <<>>]
        ELSE [w |-> scheduler_update(w3, table).w,
              phases |-> IF Failed(w2) THEN NewScheduler ELSE table,
              handler_stack |-> IF Failed(w1) THEN <<>> ELSE <<MainGameHandler>>]

\* the world the frame loop is checked on.  main_setup ends with an
\* exception before the World exists, so the world is put together with
\* add_resource and add_component on a World that has its tables and the
\* remove_component method: the four
\* resources of main.py, the player with the components main.py gives it,
\* and a second actor east of the player, with or without Stats.
ActorsWorld(monster_stats) ==
    LET w1 == add_resource(add_resource(add_resource(add_resource(FullWorld,
                  "TerminalResource"), "CameraResource"), "UIResource"), "MapResource")
        w2 == add_components(w1, Player, PLAYER_COMPONENTS)
        w3 == add_components(w2, Monster,
                  << <<"IsActor", Marker>>, <<"Position", Position(2, 1)>>,
                     <<"Drawable", Drawable("Rat")>>, <<"Health", Health(20, 15)>> >>)
    IN  IF monster_stats THEN add_component(w3, Monster, "Stats", Stats(10, 10)) ELSE w3

\* Effect objects no list refers to any more are reclaimed
Referenced(w) ==
    UNION {Range(w.components["ActiveEffects"][e].effects) :
              e \in DOMAIN w.components["ActiveEffects"]}

Collect(w) == [w EXCEPT !.heap = [r \in (DOMAIN @) \cap Referenced(w) |-> @[r]]]

NewRef(w) == SetMin((0 .. Cardinality(DOMAIN w.heap)) \ DOMAIN w.heap)

NoEntity == Player - 1

NoSolo ==
    [target |-> NoEntity, valid |-> FALSE, power |-> 0, duration |-> 0, hp0 |-> 0, at |-> 0]

NoOp(name) == [op |-> name, target |-> None, ref |-> None, msg |-> None]

\* the frame loop with pools: the player may start poisoned and the second
\* actor regenerating
StartEffects(w, poisoned) ==
    IF ~poisoned THEN w
    ELSE LET w1 == [w EXCEPT !.heap = DictPut(DictPut(@, 0,
                        Effect("POISON", "POISON", 5, EmptyDict, MaxDuration)), 1,
                        Effect("REGEN", "REGEN", 5, EmptyDict, MaxDuration))]
         IN  apply_effect_to_entity(apply_effect_to_entity(w1, Player, 0).w, Monster, 1).w

\* the frame loop before its first key, with the systems of a registration
\* list added to the scheduler
InitFrame(systems) ==
    /\ registration = systems
    /\ phases = register_all(NewScheduler, systems)
    /\ pc = "input"
    /\ trace = <<>>
    /\ before = world
    /\ last = NoOp("init")
    /\ turn = 0
    /\ applied = 0
    /\ solo = NoSolo
    /\ handler_stack = <<MainGameHandler>>

InitCommon == InitFrame(TurnRegistration) /\ pools = <<>>

\* the pools that lie on the map when the frame loop starts: up to MaxPools
\* pools on floor tiles, at most one on a tile, listed from west to east
PoolsLaid ==
    LET Laid == [tile : FloorTiles, kind : PoolKinds, power : PoolPowers, duration : Durations]
    IN  UNION {{laid \in [1 .. n -> Laid] :
                   \A i \in 1 .. n - 1 : laid[i].tile[1] < laid[i + 1].tile[1]} :
               n \in 0 .. MaxPools}

\* create_pool ends with an exception before a pool entity has a component
\* (pools.py:103), so the pools of the world are put together with
\* add_component, as create_pool would add them (pools.py:104-122): the
\* i-th on the entity after the second actor, made by the player
RECURSIVE PoolsWorld(_, _)
PoolsWorld(w, laid) ==
    IF laid = <<>> THEN w
    ELSE LET n == Len(laid)
             pool == laid[n]
         IN  add_components(PoolsWorld(w, SubSeq(laid, 1, n - 1)), Monster + n,
                 << <<"Position", Position(pool.tile[1], pool.tile[2])>>,
                    <<"Drawable", Drawable("pool of " \o POOL_NAMES[pool.kind])>>,
                    <<"GroundPool", GroundPool(pool.kind, pool.power, pool.duration,
                                               POOL_NAMES[pool.kind], Player)>> >>)

\* the second actor stands on a floor tile: on the player's or east of it
MonsterAt(w, tile) == add_component(w, Monster, "Position", Position(tile[1], tile[2]))

Init ==
    /\ \E b \in BOOLEAN, p \in BOOLEAN, tile \in FloorTiles, laid \in PoolsLaid :
          /\ world = PoolsWorld(MonsterAt(StartEffects(ActorsWorld(b), p), tile), laid)
          /\ pools = [i \in 1 .. Len(laid) |->
                         [entity |-> Monster + i, duration |-> laid[i].duration, at |-> 0]]
    /\ InitFrame(TurnRegistration)

InitEffects ==
    /\ world = ActorsWorld(FALSE)
    /\ InitCommon

StartFrame(w) == [w EXCEPT !.log = <<>>]

\* input_manager.process_key(event) (main.py:214) for the key pressed
KeyPressed(key, name) ==
    /\ pc = "input"
    /\ \E m \in {process_key([w |-> StartFrame(world), handler_stack |-> handler_stack],
                              key)} :
          /\ world' = m.w
          /\ handler_stack' = m.handler_stack
          /\ pc' = IF Failed(m.w) THEN "crashed" ELSE "update"
    /\ before' = world'
    /\ last' = NoOp(name)
    /\ trace' = <<>>
    /\ UNCHANGED <<phases, registration, turn, applied, solo, pools>>

\* one of the movement keys is pressed
KeyMove ==
    /\ turn < MaxTurns
    /\ \E key \in MoveKeys : KeyPressed(key, "move")

\* a key that the handler on top of the stack does not bind is pressed
KeyOther == \E key \in OtherKeys : KeyPressed(key, "key")

\* apply_effect_to_entity(world, target, effect) with a new Effect object of
\* a duration > 0, the call consume_item and throw_item make with the
\* effect they build from the item
ApplyEffect ==
    /\ pc = "input"
    /\ applied < MaxApplied
    /\ \E target \in {Player, Monster}, choice \in EffectChoices, duration \in Durations :
          LET kind == choice[1]
              power == choice[2]
              w0 == StartFrame(world)
              ref == NewRef(w0)
              w1 == [w0 EXCEPT !.heap = DictPut(@, ref,
                        Effect(kind, kind, power, EmptyDict, duration))]
              r == apply_effect_to_entity(w1, target, ref)
          IN  /\ solo.target \in {NoEntity, target}
              /\ world' = r.w
              /\ before' = w0
              /\ last' = [op |-> "apply_effect", target |-> target, ref |-> ref,
                          msg |-> r.msg]
              /\ solo' =
                     IF kind = "POISON" /\ ~has_component(w0, target, "ActiveEffects")
                     THEN [target |-> target, valid |-> TRUE, power |-> power,
                           duration |-> duration, hp0 |-> hp_of(w0, target), at |-> turn]
                     ELSE [NoSolo EXCEPT !.target = target]
    /\ applied' = applied + 1
    /\ pc' = "update"
    /\ trace' = <<>>
    /\ UNCHANGED <<handler_stack, phases, registration, turn, pools>>

FreeEntities(w) == {e \in Entities : \A t \in ComponentTypes : ~has_component(w, e, t)}

\* a thrown potion lands on a tile: create_pool
CreatePool ==
    /\ pc = "input"
    /\ \E tile \in FloorTiles, kind \in PoolKinds, power \in PoolPowers :
          LET w0 == StartFrame(world)
              r == create_pool(w0, tile[1], tile[2], kind, power, Player, POOL_DURATION)
          IN  /\ world' = r.w
              /\ before' = w0
              /\ last' = [op |-> "create_pool", target |-> tile, ref |-> r.id,
                          msg |-> [effect_type |-> kind, power |-> power,
                                   duration |-> POOL_DURATION]]
              /\ pc' = IF Failed(r.w) THEN "crashed" ELSE "update"
    /\ trace' = <<>>
    /\ UNCHANGED <<handler_stack, phases, registration, turn, applied, solo, pools>>

\* system_scheduler.update(world) (main.py:215)
SchedulerUpdate ==
    /\ pc = "update"
    /\ \E r \in {scheduler_update(world, phases)} :
           /\ world' = Collect(r.w)
           /\ trace' = r.trace
           /\ pc' = IF Failed(r.w) THEN "crashed" ELSE "cleanup"
           /\ turn' = IF get_entities_with(r.w, <<"TurnConsumed">>) # {}
                      THEN turn + 1 ELSE turn
    /\ before' = world
    /\ last' = NoOp("update")
    /\ UNCHANGED <<handler_stack, phases, registration, applied, solo, pools>>

\* a variant of the driver's step that leaves the marker in the store
driver_cleanup_keep(w, game_map) ==
    IF Failed(w) THEN w
    ELSE IF unassigned(w, "_components") THEN Raise(w, "AttributeError")
    ELSE IF component_for_fails(w, Player, "Position") THEN Raise(w, "AssertionError")
    ELSE compute_fov(Camera_update(w, get_component(w, Player, "Position").x,
                                   get_component(w, Player, "Position").y),
                     game_map, get_component(w, Player, "Position").x,
                     get_component(w, Player, "Position").y)

\* main.py:217-225: the driver asks get_component for the player's
\* TurnConsumed and removes it with remove_component; an exception of
\* either call ends the loop.  Then it fetches the player's Position with
\* component_for, moves the camera there and computes the field of view.
driver_cleanup_on(w, game_map) ==
    LET w1 == IF has_component(w, Player, "TurnConsumed")
              THEN remove_component(w, Player, "TurnConsumed") ELSE w
        player_pos == get_component(w1, Player, "Position")
    IN  IF Failed(w) THEN w
        ELSE IF unassigned(w, "_components") THEN Raise(w, "AttributeError")
        ELSE IF Failed(w1) THEN w1
        ELSE IF component_for_fails(w1, Player, "Position") THEN Raise(w1, "AssertionError")
        ELSE compute_fov(Camera_update(w1, player_pos.x, player_pos.y), game_map,
                         player_pos.x, player_pos.y)

driver_cleanup(w) == driver_cleanup_on(w, GameMap)

DriverCleanup ==
    /\ pc = "cleanup"
    /\ world' = driver_cleanup(world)
    /\ pc' = IF Failed(world') THEN "crashed" ELSE "input"
    /\ before' = world
    /\ last' = NoOp("cleanup")
    /\ UNCHANGED <<handler_stack, phases, registration, trace, turn, applied, solo, pools>>

Next ==
    \/ KeyMove
    \/ KeyOther
    \/ CreatePool
    \/ SchedulerUpdate
    \/ DriverCleanup

Spec == Init /\ [][Next]_vars

NextEffects ==
    \/ KeyMove
    \/ KeyOther
    \/ ApplyEffect
    \/ SchedulerUpdate
    \/ DriverCleanup

SpecEffects == InitEffects /\ [][NextEffects]_vars

(***************************************************************************)
(* The scheduler under any registration: up to MaxSystems add_system calls *)
(* in any order and into any phase, a system possibly more than once, then *)
(* the frame loop.  The player starts poisoned.                            *)
(***************************************************************************)
InitSched ==
    /\ world = StartEffects(ActorsWorld(TRUE), TRUE)
    /\ registration = <<>>
    /\ phases = NewScheduler
    /\ pc = "register"
    /\ trace = <<>>
    /\ before = world
    /\ last = NoOp("init")
    /\ turn = 0
    /\ applied = 0
    /\ solo = NoSolo
    /\ pools = <<>>
    /\ handler_stack = <<MainGameHandler>>

AddSystem ==
    /\ pc = "register"
    /\ Len(registration) < MaxSystems
    /\ \E system \in SystemNames, phase \in Range(PhaseNames) :
          /\ phases' = add_system(phases, system, phase)
          /\ registration' = Append(registration, <<system, phase>>)
    /\ last' = NoOp("add_system")
    /\ UNCHANGED <<handler_stack, world, pc, trace, before, turn, applied, solo, pools>>

\* main.py:203-206: the first system_scheduler.update(world), before the
\* loop reads a key
StartLoop ==
    /\ pc = "register"
    /\ \E r \in {scheduler_update(world, phases)} :
          /\ world' = Collect(r.w)
          /\ trace' = r.trace
          /\ pc' = IF Failed(r.w) THEN "crashed" ELSE "input"
    /\ before' = world
    /\ last' = NoOp("start")
    /\ UNCHANGED <<handler_stack, phases, registration, turn, applied, solo, pools>>

NextSched ==
    \/ AddSystem
    \/ StartLoop
    \/ KeyMove
    \/ KeyOther
    \/ SchedulerUpdate
    \/ DriverCleanup

SpecSched == InitSched /\ [][NextSched]_vars

(***************************************************************************)
(* The frame loop over a store that may lack one of the resources main.py  *)
(* registers (a wiring defect).  Both actors may start under an effect.    *)
(***************************************************************************)
ResourceNames == {"TerminalResource", "CameraResource", "UIResource", "MapResource"}

\* the registrations the wiring is checked under: the one of the turn and
\* the one of main.py
WiringRegistrations == {TurnRegistration, MainRegistration}

\* a world set up without some resources, the player without some components
Without(w, missing, lacking) ==
    LET w1 == [w EXCEPT !.resources = @ \ missing]
    IN  IF lacking = {} THEN w1
        ELSE remove_component(w1, Player, CHOOSE t \in lacking : TRUE)

InitWiring ==
    /\ world \in {Without(StartEffects(ActorsWorld(TRUE), p), missing, lacking) :
                     p \in BOOLEAN,
                     missing \in {{}} \cup {{r} : r \in ResourceNames},
                     lacking \in {{}} \cup {{t} : t \in Range(STATS_PANEL_COMPONENTS)}}
    /\ \E systems \in WiringRegistrations : InitFrame(systems)
    /\ pools = <<>>

NextWiring ==
    \/ KeyMove
    \/ KeyOther
    \/ SchedulerUpdate
    \/ DriverCleanup

SpecWiring == InitWiring /\ [][NextWiring]_vars

(***************************************************************************)
(* main.py as it is: the set-up, then the frame loop.  The set-up ends     *)
(* with the AttributeError of camera.set_screen_offset (main.py:160),      *)
(* before the World is made; the frame loop is never entered.              *)
(***************************************************************************)
InitMain ==
    /\ world \in {NewWorld, StoreWorld}
    /\ registration = <<>>
    /\ phases = NewScheduler
    /\ pc = "setup"
    /\ trace = <<>>
    /\ before = world
    /\ last = NoOp("init")
    /\ turn = 0
    /\ applied = 0
    /\ solo = NoSolo
    /\ pools = <<>>
    /\ handler_stack = <<>>

MainSetup ==
    /\ pc = "setup"
    /\ \E r \in {main_setup(world)} :
          /\ world' = r.w
          /\ phases' = r.phases
          /\ handler_stack' = r.handler_stack
          /\ pc' = IF Failed(r.w) THEN "crashed" ELSE "input"
    /\ registration' = IF Failed(world') THEN <<>> ELSE MainRegistration
    /\ before' = world
    /\ last' = NoOp("setup")
    /\ UNCHANGED <<trace, turn, applied, solo, pools>>

NextMain ==
    \/ MainSetup
    \/ KeyMove
    \/ KeyOther
    \/ SchedulerUpdate
    \/ DriverCleanup

SpecMain == InitMain /\ [][NextMain]_vars

(***************************************************************************)
(* The World as a store: its methods called one at a time, in any order,   *)
(* by a caller that survives their exceptions.                             *)
(***************************************************************************)
StoredEntities == 0 .. MaxStored

\* the components added: two Positions and a Health
StoredComponents ==
    {<<"Position", Position(0, 0)>>, <<"Position", Position(1, 1)>>,
     <<"Health", Health(10, 20)>>}

\* the types asked for: the types added and one no entity holds
QueryTypes == {"Position", "Health", "Mana"}

RECURSIVE SeqsUpTo(_, _)
SeqsUpTo(S, n) ==
    IF n = 0 THEN {<<>>}
    ELSE SeqsUpTo(S, n - 1) \cup {Append(q, x) : q \in SeqsUpTo(S, n - 1), x \in S}

InitStore ==
    /\ world = FullWorld
    /\ registration = <<>>
    /\ phases = NewScheduler
    /\ pc = "store"
    /\ trace = <<>>
    /\ before = world
    /\ last = NoOp("init")
    /\ turn = 0
    /\ applied = 0
    /\ solo = NoSolo
    /\ pools = <<>>
    /\ handler_stack = <<>>

\* world.create_entity(); the caller goes on after the exception
CreateEntity ==
    /\ pc = "store"
    /\ world.next_entity_id < MaxCreated
    /\ \E r \in {create_entity(world)} :
           /\ world' = [r.w EXCEPT !.err = NoError]
           /\ last' = [op |-> "create_entity", target |-> None, ref |-> r.id,
                       msg |-> r.w.err]
    /\ before' = world
    /\ UNCHANGED <<handler_stack, phases, registration, pc, trace, turn, applied, solo, pools>>

\* world.add_component(entity, component)
AddComponent ==
    /\ pc = "store"
    /\ \E entity \in StoredEntities, c \in StoredComponents :
           /\ world' = add_component(world, entity, c[1], c[2])
           /\ last' = [op |-> "add_component", target |-> entity, ref |-> c[1],
                       msg |-> c[2]]
    /\ before' = world
    /\ UNCHANGED <<handler_stack, phases, registration, pc, trace, turn, applied, solo, pools>>

\* world.remove_component(entity, component_type)
RemoveComponent ==
    /\ pc = "store"
    /\ \E entity \in StoredEntities, ctype \in QueryTypes :
           /\ world' = remove_component(world, entity, ctype)
           /\ last' = [op |-> "remove_component", target |-> entity, ref |-> ctype,
                       msg |-> None]
    /\ before' = world
    /\ UNCHANGED <<handler_stack, phases, registration, pc, trace, turn, applied, solo, pools>>

\* world.get_entities_with(*component_types): the result is a set, or an
\* iterator when no type is given
GetEntitiesWith ==
    /\ pc = "store"
    /\ \E ctypes \in SeqsUpTo(QueryTypes, MaxTypes) :
           last' = [op |-> "get_entities_with", target |-> None, ref |-> ctypes,
                    msg |-> IF ctypes = <<>>
                            THEN [type |-> "iterator", ids |-> get_all_entities(world)]
                            ELSE [type |-> "set",
                                  ids |-> SetIter(get_entities_with(world, ctypes))]]
    /\ before' = world
    /\ UNCHANGED <<handler_stack, world, phases, registration, pc, trace, turn, applied, solo, pools>>

NextStore ==
    \/ CreateEntity
    \/ AddComponent
    \/ RemoveComponent
    \/ GetEntitiesWith

SpecStore == InitStore /\ [][NextStore]_vars

(***************************************************************************)
(* The resources of the World: its resource methods called one at a time,  *)
(* in any order, by a caller that survives their exceptions.               *)
(***************************************************************************)
StoredResources ==
    {"TerminalResource", "UIResource", "MapResource", "LookModeResource"}

InitResources ==
    /\ world = FullWorld
    /\ registration = <<>>
    /\ phases = NewScheduler
    /\ pc = "resources"
    /\ trace = <<>>
    /\ before = world
    /\ last = NoOp("init")
    /\ turn = 0
    /\ applied = 0
    /\ solo = NoSolo
    /\ pools = <<>>
    /\ handler_stack = <<>>

\* world.add_resource(resource)
AddResource ==
    /\ pc = "resources"
    /\ \E rtype \in StoredResources :
           /\ world' = add_resource(world, rtype)
           /\ last' = [op |-> "add_resource", target |-> rtype, ref |-> None,
                       msg |-> NoError]
    /\ before' = world
    /\ UNCHANGED <<handler_stack, phases, registration, pc, trace, turn, applied, solo, pools>>

\* world.get_resource(resource_type)
GetResource ==
    /\ pc = "resources"
    /\ \E rtype \in StoredResources :
           \E r \in {get_resource(world, rtype)} :
               /\ world' = [r.w EXCEPT !.err = NoError]
               /\ last' = [op |-> "get_resource", target |-> rtype, ref |-> r.instance,
                           msg |-> r.w.err]
    /\ before' = world
    /\ UNCHANGED <<handler_stack, phases, registration, pc, trace, turn, applied, solo, pools>>

\* world.resource_for(resource_type)
ResourceFor ==
    /\ pc = "resources"
    /\ \E rtype \in StoredResources :
           \E w1 \in {resource_for(world, rtype)} :
               /\ world' = [w1 EXCEPT !.err = NoError]
               /\ last' = [op |-> "resource_for", target |-> rtype,
                           ref |-> IF Failed(w1) THEN None ELSE rtype, msg |-> w1.err]
    /\ before' = world
    /\ UNCHANGED <<handler_stack, phases, registration, pc, trace, turn, applied, solo, pools>>

NextResources ==
    \/ AddResource
    \/ GetResource
    \/ ResourceFor

SpecResources == InitResources /\ [][NextResources]_vars

(***************************************************************************)
(* The geometry queries: one call of one of them, on points in and around  *)
(* a square map of floor with at most one wall.                            *)
(***************************************************************************)
GeoCoords == -2 .. GeoSize + 1

GeoPoints == GeoCoords \X GeoCoords

\* GameMap(width, height) is all floor (map/map.py:33-39); set_tile puts a wall
FloorMap(width, height) ==
    [width |-> width, height |-> height,
     tiles |-> [y \in 0 .. height - 1 |-> [x \in 0 .. width - 1 |-> "FLOOR"]]]

set_tile(game_map, x, y, tile_type) == [game_map EXCEPT !.tiles[y][x] = tile_type]

GeoMaps ==
    {FloorMap(GeoSize, GeoSize)}
    \cup {set_tile(FloorMap(GeoSize, GeoSize), x, y, "WALL") :
              x \in 0 .. GeoSize - 1, y \in 0 .. GeoSize - 1}

InitGeometry ==
    /\ world = FullWorld
    /\ registration = <<>>
    /\ phases = NewScheduler
    /\ pc = "geometry"
    /\ trace = <<>>
    /\ before = world
    /\ last = NoOp("init")
    /\ turn = 0
    /\ applied = 0
    /\ solo = NoSolo
    /\ pools = <<>>
    /\ handler_stack = <<>>

\* get_line(x1, y1, x2, y2)
GetLine ==
    /\ pc = "geometry"
    /\ \E p1 \in GeoPoints, p2 \in GeoPoints :
           last' = [op |-> "get_line", target |-> <<p1, p2>>, ref |-> None,
                    msg |-> get_line(p1[1], p1[2], p2[1], p2[2])]
    /\ pc' = "answered"
    /\ UNCHANGED <<handler_stack, world, phases, registration, trace, before, turn, applied, solo, pools>>

\* has_line_of_sight(x1, y1, x2, y2, game_map)
HasLineOfSight ==
    /\ pc = "geometry"
    /\ \E p1 \in GeoPoints, p2 \in GeoPoints, game_map \in GeoMaps :
           last' = [op |-> "has_line_of_sight", target |-> <<p1, p2>>, ref |-> game_map,
                    msg |-> has_line_of_sight(p1[1], p1[2], p2[1], p2[2], game_map)]
    /\ pc' = "answered"
    /\ UNCHANGED <<handler_stack, world, phases, registration, trace, before, turn, applied, solo, pools>>

\* get_tiles_in_radius(center_x, center_y, radius, game_map)
GetTilesInRadius ==
    /\ pc = "geometry"
    /\ \E c \in GeoPoints, radius \in 0 .. MaxRadius :
           last' = [op |-> "get_tiles_in_radius", target |-> <<c, radius>>,
                    ref |-> FloorMap(GeoSize, GeoSize),
                    msg |-> get_tiles_in_radius(c[1], c[2], radius,
                                                FloorMap(GeoSize, GeoSize))]
    /\ pc' = "answered"
    /\ UNCHANGED <<handler_stack, world, phases, registration, trace, before, turn, applied, solo, pools>>

NextGeometry ==
    \/ GetLine
    \/ HasLineOfSight
    \/ GetTilesInRadius

SpecGeometry == InitGeometry /\ [][NextGeometry]_vars

(***************************************************************************)
(* MovementSystem on the maps GameMap and ArenaGenerator build: the player *)
(* and a second entity stand on tiles that do not block, receive move      *)
(* intents in the eight directions, and MovementSystem.update resolves     *)
(* them.  The map the MapResource holds is kept in last.ref.               *)
(***************************************************************************)
MaxMoves == 3

AllDirections == {d \in (-1 .. 1) \X (-1 .. 1) : d # <<0, 0>>}

MoveMaps ==
    {FloorMap(GeoSize, GeoSize), ArenaGenerator(MapWidth, 3),
     set_tile(FloorMap(GeoSize, GeoSize), 1, 1, "DEEP_WATER")}

OpenTiles(game_map) ==
    {t \in (0 .. game_map.width - 1) \X (0 .. game_map.height - 1) :
        ~TILE_PROPERTIES[get_tile(game_map, t[1], t[2])].blocks_movement}

\* the first tile of the set in row order
FirstTile(tiles) ==
    CHOOSE t \in tiles : \A u \in tiles : t[2] < u[2] \/ (t[2] = u[2] /\ t[1] <= u[1])

MoveWorld(p, q) ==
    add_components(
        add_components(add_resource(FullWorld, "MapResource"), Player,
            << <<"IsPlayer", Marker>>, <<"Position", Position(p[1], p[2])>> >>),
        Monster, << <<"Position", Position(q[1], q[2])>> >>)

InitMove ==
    /\ \E game_map \in MoveMaps :
          /\ last = [NoOp("init") EXCEPT !.ref = game_map]
          /\ \E p \in OpenTiles(game_map) :
                world = MoveWorld(p, FirstTile(OpenTiles(game_map)))
    /\ registration = <<>>
    /\ phases = NewScheduler
    /\ pc = "input"
    /\ trace = <<>>
    /\ before = world
    /\ turn = 0
    /\ applied = 0
    /\ solo = NoSolo
    /\ pools = <<>>
    /\ handler_stack = <<>>

\* a MoveIntent is put on an entity: the player's consumes the turn
\* (input/handlers.py:77), the second entity's does not
AddIntent ==
    /\ pc = "input"
    /\ turn < MaxMoves
    /\ \E entity \in {Player, Monster}, d \in AllDirections :
          /\ ~has_component(world, entity, "MoveIntent")
          /\ world' = add_component(world, entity, "MoveIntent",
                                    MoveIntent(d[1], d[2], entity = Player))
    /\ turn' = turn + 1
    /\ before' = world
    /\ last' = [last EXCEPT !.op = "intent"]
    /\ UNCHANGED <<handler_stack, phases, registration, pc, trace, applied, solo, pools>>

\* MovementSystem.update(world), the one system of the update
\* (main.py:215); an exception ends the loop
MoveUpdate ==
    /\ pc = "input"
    /\ get_entities_with(world, <<"MoveIntent">>) # {}
    /\ world' = MovementSystem_update_on(world, last.ref)
    /\ before' = world
    /\ last' = [last EXCEPT !.op = "movement"]
    /\ pc' = IF Failed(world') THEN "crashed" ELSE "cleanup"
    /\ UNCHANGED <<handler_stack, phases, registration, trace, turn, applied, solo, pools>>

\* main.py:217-225; an exception ends the loop
MoveCleanup ==
    /\ pc = "cleanup"
    /\ world' = driver_cleanup_on(world, last.ref)
    /\ before' = world
    /\ last' = [last EXCEPT !.op = "cleanup"]
    /\ pc' = IF Failed(world') THEN "crashed" ELSE "input"
    /\ UNCHANGED <<handler_stack, phases, registration, trace, turn, applied, solo, pools>>

NextMove ==
    \/ AddIntent
    \/ MoveUpdate
    \/ MoveCleanup

SpecMove == InitMove /\ [][NextMove]_vars

(***************************************************************************)
(* Thrown items in the frame loop: the player carries a scroll with an     *)
(* area effect and a second item, a potion or a plain item; throw_item is  *)
(* called for either actor, either item and a tile of the middle row, and  *)
(* the turns of the frame loop tick what the throw left on the actors.     *)
(***************************************************************************)
Scroll == Monster + 1

Flask == Scroll + 1

Scrolls ==
    {Consumable("poison", 5, FALSE, 1, d) : d \in 0 .. MaxDuration}
    \cup {Consumable("damage", 5, TRUE, 1, 0)}

Flasks == {Consumable("heal", 10, TRUE, 0, 0), Consumable("poison", 5, FALSE, 0, 0)}

ThrowWorld(scroll, flask, plain) ==
    LET w1 == add_components(ActorsWorld(TRUE), Scroll,
                  << <<"Item", Item("consumable", 1)>>, <<"Drawable", Drawable("Scroll")>>,
                     <<"Consumable", scroll>>, <<"InInventory", InInventory(Player)>> >>)
        w2 == add_components(w1, Flask,
                  << <<"Item", Item(IF plain THEN "treasure" ELSE "consumable", 1)>>,
                     <<"Drawable", Drawable("Flask")>>,
                     <<"InInventory", InInventory(Player)>> >>)
    IN  IF plain THEN w2 ELSE add_component(w2, Flask, "Consumable", flask)

\* the second item is no consumable by its Item component but carries a
\* Consumable without a pool: thrown at an empty tile it does not break
SealedWorld(scroll) ==
    add_component(add_component(ThrowWorld(scroll, CHOOSE f \in Flasks : TRUE, TRUE),
                                Flask, "Item", Item("treasure", 1)),
                  Flask, "Consumable", Consumable("poison", 5, FALSE, 0, 0))

NoThrow == [hit |-> {}, valid |-> FALSE, power |-> 0, duration |-> 0, hp0 |-> <<>>, at |-> 0]

InitThrow ==
    /\ world \in {ThrowWorld(scroll, flask, FALSE) : scroll \in Scrolls, flask \in Flasks}
                 \cup {ThrowWorld(scroll, CHOOSE f \in Flasks : TRUE, TRUE) : scroll \in Scrolls}
                 \cup {SealedWorld(scroll) : scroll \in Scrolls}
    /\ registration = TurnRegistration
    /\ phases = register_all(NewScheduler, TurnRegistration)
    /\ pc = "input"
    /\ trace = <<>>
    /\ before = world
    /\ last = NoOp("init")
    /\ turn = 0
    /\ applied = 0
    /\ solo = NoThrow
    /\ pools = <<>>
    /\ handler_stack = <<MainGameHandler>>

\* throw_item(world, thrower, item_id, target_x, target_y); the caller
\* outlives an exception, which is kept in last.msg
ThrowItem ==
    /\ pc = "input"
    /\ applied < MaxApplied
    /\ \E thrower \in {Player, Monster}, item_id \in {Scroll, Flask}, x \in 0 .. MapWidth - 1 :
          LET w0 == StartFrame(world)
              hit == Range(get_entities_in_radius(w0, x, 1, 1))
              lasting == /\ item_id = Scroll
                         /\ has_component(w0, Scroll, "Consumable")
                         /\ get_component(w0, Scroll, "Consumable").effect_duration > 0
          IN  \E r \in {throw_item(w0, thrower, item_id, x, 1)} :
                 /\ world' = [r.w EXCEPT !.err = NoError]
                 /\ before' = w0
                 /\ last' = [op |-> "throw_item", target |-> <<x, 1>>, ref |-> item_id,
                             msg |-> [ok |-> r.ok, thrower |-> thrower, err |-> r.w.err,
                                      msg |-> r.msg]]
                 /\ solo' = IF r.ok /\ lasting
                            THEN [hit |-> hit, valid |-> TRUE,
                                  power |-> get_component(w0, Scroll, "Consumable").effect_power,
                                  duration |-> get_component(w0, Scroll, "Consumable").effect_duration,
                                  hp0 |-> [e \in hit |-> hp_of(w0, e)], at |-> turn]
                            ELSE IF r.ok /\ item_id = Flask THEN [solo EXCEPT !.valid = FALSE]
                            ELSE solo
    /\ applied' = applied + 1
    /\ pc' = "update"
    /\ trace' = <<>>
    /\ UNCHANGED <<handler_stack, phases, registration, turn, pools>>

NextThrow ==
    \/ KeyMove
    \/ KeyOther
    \/ ThrowItem
    \/ SchedulerUpdate
    \/ DriverCleanup

SpecThrow == InitThrow /\ [][NextThrow]_vars

(***************************************************************************)
(* Items of the player: two swords and a third item lie at the player's    *)
(* feet.  The functions of items/ are called on them with the arguments    *)
(* the handlers of input/ pass: an item at the feet is picked up, an item  *)
(* of the inventory is dropped, equipped, consumed or thrown, a filled     *)
(* slot is emptied.                                                        *)
(***************************************************************************)
MaxSlots == 2

SwordA == Player + 1

SwordB == SwordA + 1

Trinket == SwordB + 1

Trinkets ==
    {<< <<"Item", Item("consumable", 1)>>, <<"Consumable", Consumable("heal", 10, FALSE, 0, 0)>> >>,
     << <<"Item", Item("consumable", 2)>>,
        <<"Consumable", [Consumable("heal", 10, FALSE, 0, 0) EXCEPT !.uses_remaining = 2]>> >>,
     << <<"Item", Item("equipment", 1)>>, <<"Equipment", Equipment("ring", 0, 0)>> >>}

OnTheGround(w, item_id, name, comps) ==
    add_components(w, item_id,
        << <<"Drawable", Drawable(name)>>, <<"OnGround", Marker>>,
           <<"Position", Position(1, 1)>> >> \o comps)

ItemsWorld(trinket) ==
    LET w0 == add_resource(add_resource(add_resource(add_resource(FullWorld,
                  "TerminalResource"), "CameraResource"), "UIResource"), "MapResource")
        w1 == add_components(w0, Player,
                  << <<"IsPlayer", Marker>>, <<"IsActor", Marker>>,
                     <<"Position", Position(1, 1)>>, <<"Drawable", Drawable("Player")>>,
                     <<"Stats", Stats(10, 10)>>, <<"Health", Health(30, 20)>>,
                     <<"Inventory", Inventory(MaxSlots)>>,
                     <<"EquipmentSlots", EquipmentSlots>> >>)
        sword == << <<"Item", Item("equipment", 1)>>, <<"Equipment", Equipment("main_hand", 5, 0)>> >>
    IN  OnTheGround(OnTheGround(OnTheGround(w1, SwordA, "Sword", sword),
                                SwordB, "Blade", sword),
                    Trinket, "Trinket", trinket)

InitItems ==
    /\ world \in {ItemsWorld(trinket) : trinket \in Trinkets}
    /\ registration = <<>>
    /\ phases = NewScheduler
    /\ pc = "items"
    /\ trace = <<>>
    /\ before = world
    /\ last = NoOp("init")
    /\ turn = 0
    /\ applied = 0
    /\ solo = NoSolo
    /\ pools = <<>>
    /\ handler_stack = <<>>

ItemStep(w, op, target, result) ==
    /\ world' = [w EXCEPT !.err = NoError]
    /\ before' = world
    /\ last' = [op |-> op, target |-> target, ref |-> None,
                msg |-> [result |-> result, err |-> w.err]]
    /\ UNCHANGED <<handler_stack, phases, registration, pc, trace, turn, applied, solo, pools>>

PlayerPosition == get_component(world, Player, "Position")

\* pickup_item(world, player, item_id) for an item at the player's feet
PickupItem ==
    /\ pc = "items"
    /\ \E item_id \in get_items_at_position(world, PlayerPosition.x, PlayerPosition.y) :
          \E r \in {pickup_item(world, Player, item_id)} :
              ItemStep(r.w, "pickup_item", item_id, r.ok)

\* drop_item(world, player, item_id, pos.x, pos.y) for an item of the inventory
DropItem ==
    /\ pc = "items"
    /\ \E item_id \in get_inventory_items(world, Player) :
          \E r \in {drop_item(world, Player, item_id, PlayerPosition.x, PlayerPosition.y)} :
              ItemStep(r.w, "drop_item", item_id, r.ok)

\* equip_item(world, player, item_id) for an item of the inventory that is
\* equipment and passes can_equip
EquipItem ==
    /\ pc = "items"
    /\ \E item_id \in get_inventory_items(world, Player) :
          /\ has_component(world, item_id, "Equipment")
          /\ can_equip(world, Player, item_id)
          /\ \E r \in {equip_item(world, Player, item_id)} :
                ItemStep(r.w, "equip_item", item_id, r.result)

\* unequip_to_inventory(world, player, slot) for a slot that holds an item
UnequipItem ==
    /\ pc = "items"
    /\ \E slot \in SLOT_NAMES :
          /\ get_component(world, Player, "EquipmentSlots").slots[slot] # {}
          /\ \E r \in {unequip_to_inventory(world, Player, slot)} :
                ItemStep(r.w, "unequip_to_inventory", slot, r.result)

\* throw_item(world, player, item_id, x, y) at the player's tile or the next
ThrowAway ==
    /\ pc = "items"
    /\ \E item_id \in get_inventory_items(world, Player), x \in {1, 2} :
          \E r \in {throw_item(world, Player, item_id, x, 1)} :
              ItemStep(r.w, "throw_item", item_id, r.ok)

\* consume_item(world, player, item_id) for an item of the inventory
ConsumeItem ==
    /\ pc = "items"
    /\ \E item_id \in get_inventory_items(world, Player) :
          \E r \in {consume_item(world, Player, item_id)} :
              ItemStep(Collect(r.w), "consume_item", item_id, r.ok)

NextItems ==
    \/ PickupItem
    \/ DropItem
    \/ EquipItem
    \/ UnequipItem
    \/ ThrowAway
    \/ ConsumeItem

SpecItems == InitItems /\ [][NextItems]_vars

(***************************************************************************)
(* The menus in the frame loop: a key is handed to                         *)
(* InputManager.process_key, then the systems are updated and the driver   *)
(* cleans up (main.py:209-227), starting with the main game handler alone  *)
(* on the handler stack and no popup shown.  The player stands on the      *)
(* three items, or has picked up the sword and the trinket, or has put     *)
(* that sword in the main hand.  The keys pressed are counted in applied.  *)
(***************************************************************************)
MaxKeys == 5

KeysPressed ==
    {TK_ESCAPE, "enter", "i", "e", "g", "m", "x", "up", "a", "b", "c", "d", "f", "o", "z"}

MenuWorld(trinket) ==
    pickup_item(pickup_item(ItemsWorld(trinket), Player, SwordA).w, Player, Trinket).w

\* the same world with the sword of the inventory in the main hand
EquippedWorld(trinket) == equip_item(MenuWorld(trinket), Player, SwordA).w

InitMenus ==
    /\ world \in {ItemsWorld(trinket) : trinket \in Trinkets}
                  \cup {MenuWorld(trinket) : trinket \in Trinkets}
                  \cup {EquippedWorld(trinket) : trinket \in Trinkets}
    /\ InitCommon

\* input_manager.process_key(key) of the main loop (main.py:209-214)
PressKey ==
    /\ pc = "input"
    /\ applied < MaxKeys
    /\ \E key \in KeysPressed :
          \E m \in {process_key([w |-> StartFrame(world), handler_stack |-> handler_stack],
                                key)} :
              /\ world' = m.w
              /\ handler_stack' = m.handler_stack
              /\ pc' = IF Failed(m.w) THEN "crashed" ELSE "update"
              /\ last' = [op |-> "process_key", target |-> key, ref |-> None,
                          msg |-> None]
    /\ before' = world
    /\ applied' = applied + 1
    /\ trace' = <<>>
    /\ UNCHANGED <<phases, registration, turn, solo, pools>>

NextMenus ==
    \/ PressKey
    \/ SchedulerUpdate
    \/ DriverCleanup

SpecMenus == InitMenus /\ [][NextMenus]_vars

(***************************************************************************)
(* Stat effects in the frame loop: STAT_BUFF and STAT_DEBUFF effects with  *)
(* a duration, and a REGEN without modifiers, applied to the two actors.   *)
(* All the effects of a behaviour go to one actor; while solo is valid it   *)
(* remembers the one stat effect of that actor: its modifiers, its         *)
(* duration, the effective stats before it and the turn.                   *)
(***************************************************************************)
BuffChoices ==
    {<<"STAT_BUFF", 0, [strength |-> 2]>>,
     <<"STAT_BUFF", 0, [strength |-> 1, constitution |-> 2]>>,
     <<"STAT_DEBUFF", 0, [strength |-> 0 - 2, wisdom |-> 0 - 1]>>,
     <<"REGEN", 5, EmptyDict>>}

InitStats ==
    /\ world \in {ActorsWorld(b) : b \in BOOLEAN}
    /\ InitCommon

\* apply_effect_to_entity(world, target, effect) with a new Effect object of
\* a duration > 0 that carries stat modifiers
ApplyBuff ==
    /\ pc = "input"
    /\ applied < MaxApplied
    /\ \E target \in {Player, Monster}, choice \in BuffChoices, duration \in Durations :
          LET kind == choice[1]
              w0 == StartFrame(world)
              ref == NewRef(w0)
              w1 == [w0 EXCEPT !.heap = DictPut(@, ref,
                        Effect(kind, kind, choice[2], choice[3], duration))]
              r == apply_effect_to_entity(w1, target, ref)
          IN  /\ solo.target \in {NoEntity, target}
              /\ world' = r.w
              /\ before' = w0
              /\ last' = [op |-> "apply_effect", target |-> target, ref |-> ref,
                          msg |-> r.msg]
              /\ solo' =
                     IF kind # "REGEN" /\ ~has_component(w0, target, "ActiveEffects")
                     THEN [target |-> target, valid |-> TRUE, power |-> choice[3],
                           duration |-> duration,
                           hp0 |-> get_effective_stats(w0, target), at |-> turn]
                     ELSE [NoSolo EXCEPT !.target = target]
    /\ applied' = applied + 1
    /\ pc' = "update"
    /\ trace' = <<>>
    /\ UNCHANGED <<handler_stack, phases, registration, turn, pools>>

NextStats ==
    \/ KeyMove
    \/ KeyOther
    \/ ApplyBuff
    \/ SchedulerUpdate
    \/ DriverCleanup

SpecStats == InitStats /\ [][NextStats]_vars

(***************************************************************************)
(* Effects applied directly: apply_effect_to_entity with an Effect of      *)
(* duration 0 (a consumed potion, effects/apply.py:11-30) and one          *)
(* EffectTickSystem._apply_tick, on one target that may or may not carry   *)
(* Health, Stats, Mana, Experience and a lasting STAT_BUFF.                *)
(***************************************************************************)
\* the level-ups of a behaviour
MaxLevelUps == 1

InstantPowers == {0, 5, 20}

StatModifiers == {EmptyDict, [strength |-> 2], [strength |-> -2]}

\* the instant effects applied: kind, power and stat modifiers
InstantChoices ==
    {Effect(k, k, p, EmptyDict, 0) :
        k \in EffectTypes \ {"STAT_BUFF", "STAT_DEBUFF"}, p \in InstantPowers}
    \cup {Effect(k, k, 0, m, 0) : k \in {"STAT_BUFF", "STAT_DEBUFF"}, m \in StatModifiers}

\* the effects ticked: the kinds _apply_tick knows
TickChoices ==
    {Effect(k, k, p, EmptyDict, 1) : k \in {"POISON", "DAMAGE", "REGEN"}, p \in {5, 20}}

HealthChoices == {<<>>, << <<"Health", Health(10, 20)>> >>, << <<"Health", Health(45, 20)>> >>}

StatsChoices == {<<>>, << <<"Stats", Stats(10, 10)>> >>}

ManaChoices == {<<>>, << <<"Mana", Mana(5, 10)>> >>}

ExperienceChoices == {<<>>, << <<"Experience", Experience(2)>> >>}

\* the target of the applications: an actor with the chosen components,
\* possibly under a lasting STAT_BUFF
InstantWorld(comps, buffed) ==
    LET w1 == add_components(add_resource(FullWorld, "UIResource"), Player,
                  << <<"IsActor", Marker>>, <<"Drawable", Drawable("Target")>> >> \o comps)
        w2 == [w1 EXCEPT !.heap = DictPut(@, 0,
                  Effect("Strength", "STAT_BUFF", 0, [strength |-> 2], MaxDuration))]
    IN  IF buffed THEN apply_effect_to_entity(w2, Player, 0).w ELSE w1

InitInstant ==
    /\ world \in {InstantWorld(h \o s \o m \o x, b) :
                     h \in HealthChoices, s \in StatsChoices, m \in ManaChoices,
                     x \in ExperienceChoices, b \in BOOLEAN}
    /\ registration = <<>>
    /\ phases = NewScheduler
    /\ pc = "apply"
    /\ trace = <<>>
    /\ before = world
    /\ last = NoOp("init")
    /\ turn = 0
    /\ applied = 0
    /\ solo = NoSolo
    /\ pools = <<>>
    /\ handler_stack = <<>>

\* apply_effect_to_entity(world, target, effect) with a new Effect object of
\* duration 0
ApplyInstant ==
    /\ pc = "apply"
    /\ applied < MaxInstant
    /\ \E effect \in InstantChoices :
          \E r \in {apply_effect_to_entity(
                        [world EXCEPT !.heap = DictPut(@, NewRef(world), effect)],
                        Player, NewRef(world))} :
              /\ world' = Collect(r.w)
              /\ last' = [op |-> "apply_effect", target |-> Player, ref |-> effect,
                          msg |-> r.msg]
    /\ before' = world
    /\ applied' = applied + 1
    /\ UNCHANGED <<handler_stack, phases, registration, pc, trace, turn, solo, pools>>

\* EffectTickSystem._apply_tick(world, entity, effect) for one effect
ApplyTick ==
    /\ pc = "apply"
    /\ applied < MaxInstant
    /\ \E effect \in TickChoices :
          /\ world' = apply_tick(world, Player, effect)
          /\ last' = [op |-> "apply_tick", target |-> Player, ref |-> effect,
                      msg |-> None]
    /\ before' = world
    /\ applied' = applied + 1
    /\ UNCHANGED <<handler_stack, phases, registration, pc, trace, turn, solo, pools>>

\* the pools stood in: the kinds _apply_pool_effect knows
PoolChoices ==
    {GroundPool(k, p, POOL_DURATION, POOL_NAMES[k], NoEntity) :
        k \in EffectTypes \ {"STAT_BUFF", "STAT_DEBUFF"}, p \in {5, 20}}

\* GroundPoolSystem._apply_pool_effect(world, entity, pool) for one occupant,
\* an actor with Health as the scan of the system finds them
ApplyPool ==
    /\ pc = "apply"
    /\ applied < MaxInstant
    /\ has_component(world, Player, "Health")
    /\ \E pool \in PoolChoices :
          /\ world' = apply_pool_effect(world, Player, pool)
          /\ last' = [op |-> "apply_pool", target |-> Player, ref |-> pool, msg |-> None]
    /\ before' = world
    /\ applied' = applied + 1
    /\ UNCHANGED <<handler_stack, phases, registration, pc, trace, turn, solo, pools>>

\* apply_level_up(exp, stats) with the Experience and Stats of the target
LevelUp ==
    /\ pc = "apply"
    /\ turn < MaxLevelUps
    /\ has_component(world, Player, "Experience")
    /\ has_component(world, Player, "Stats")
    /\ world' = apply_level_up(world, Player)
    /\ last' = NoOp("apply_level_up")
    /\ before' = world
    /\ turn' = turn + 1
    /\ UNCHANGED <<handler_stack, phases, registration, pc, trace, applied, solo, pools>>

NextInstant ==
    \/ ApplyInstant
    \/ ApplyTick
    \/ ApplyPool
    \/ LevelUp

SpecInstant == InitInstant /\ [][NextInstant]_vars
(***************************************************************************)
(* Properties of duration effects, checked under SpecEffects.              *)
(***************************************************************************)
effects_of(w, entity) ==
    IF has_component(w, entity, "ActiveEffects")
    THEN get_component(w, entity, "ActiveEffects").effects
    ELSE <<>>

RECURSIVE SumPowers(_, _)
SumPowers(heap, effects) ==
    IF effects = <<>> THEN 0
    ELSE heap[Head(effects)].power + SumPowers(heap, Tail(effects))

TurnResolved == pc = "cleanup" /\ get_entities_with(world, <<"TurnConsumed">>) # {}

\* C1: a single POISON effect of duration d >= 1 and power p, applied to an
\* entity with Health that carries no other effect, has lowered its hp by
\* exactly p after each of the next d resolution ticks and by d * p in all;
\* the entity has its ActiveEffects component (holding that one effect with
\* the ticks that remain) before the d-th tick and no longer after it.
PoisonRunsItsCourse ==
    solo.valid =>
        LET entity == solo.target
            k == Min2(solo.duration, turn - solo.at)
            effects == effects_of(world, entity)
        IN  /\ hp_of(world, entity) = solo.hp0 - solo.power * k
            /\ has_component(world, entity, "ActiveEffects") <=> k < solo.duration
            /\ k < solo.duration =>
                  /\ Len(effects) = 1
                  /\ world.heap[effects[1]].effect_type = "POISON"
                  /\ world.heap[effects[1]].power = solo.power
                  /\ world.heap[effects[1]].duration = solo.duration - k

\* the poison of at least two ticks has run out: d ticks, d * p hp lost
PoisonRanOut ==
    /\ solo.valid
    /\ solo.duration >= 2
    /\ turn - solo.at >= solo.duration
    /\ ~has_component(world, solo.target, "ActiveEffects")
    /\ hp_of(world, solo.target) = solo.hp0 - solo.power * solo.duration

\* C9: at a resolution tick an entity that carries N POISON effects loses
\* the sum of their powers; effects are never merged or refreshed: each
\* keeps its power and loses one tick of its own duration, the ones that
\* reach 0 leave the list and the others stay, in order.
PoisonsStack ==
    TurnResolved =>
        \A entity \in DOMAIN before.components["ActiveEffects"] :
            LET old == effects_of(before, entity)
                Stays(ref) == before.heap[ref].duration > 1
                kept == SelectSeq(old, Stays)
            IN  /\ (\A i \in 1 .. Len(old) : before.heap[old[i]].effect_type = "POISON")
                      => hp_of(world, entity) =
                             hp_of(before, entity) - SumPowers(before.heap, old)
                /\ effects_of(world, entity) = kept
                /\ \A i \in 1 .. Len(kept) :
                      world.heap[kept[i]] =
                          [before.heap[kept[i]] EXCEPT !.duration = @ - 1]

\* two poisons of different power tick together; one of them expires
TwoPoisonsTicked ==
    /\ TurnResolved
    /\ \E entity \in DOMAIN before.components["ActiveEffects"] :
          LET old == effects_of(before, entity)
          IN  /\ Len(old) = 2
              /\ \A i \in 1 .. 2 : before.heap[old[i]].effect_type = "POISON"
              /\ before.heap[old[1]].power # before.heap[old[2]].power
              /\ before.heap[old[1]].duration > 1
              /\ before.heap[old[2]].duration = 1
              /\ Len(effects_of(world, entity)) = 1

\* C10: applying an effect of duration > 0 appends it to the target's
\* ActiveEffects list, which is created when absent: the list grows by
\* exactly that one entry, the effects already in it keep their power and
\* remaining duration, and no hp or mp changes at application time.
ApplyEffectAppends ==
    last.op = "apply_effect" =>
        LET target == last.target
            old == effects_of(before, target)
            new == effects_of(world, target)
        IN  /\ has_component(world, target, "ActiveEffects")
            /\ Len(new) = Len(old) + 1
            /\ new = Append(old, last.ref)
            /\ \A i \in 1 .. Len(old) : world.heap[old[i]] = before.heap[old[i]]
            /\ world.heap[last.ref].duration = last.msg.amount
            /\ last.msg.kind = "applied"
            /\ world.components["Health"] = before.components["Health"]
            /\ world.components["Mana"] = before.components["Mana"]
            /\ \A entity \in Entities \ {target} :
                  effects_of(world, entity) = effects_of(before, entity)

\* an effect is applied to a target that carries one of the same kind with
\* another remaining duration
EffectReapplied ==
    /\ last.op = "apply_effect"
    /\ \E i \in 1 .. Len(effects_of(before, last.target)) :
          LET ref == effects_of(before, last.target)[i]
          IN  /\ before.heap[ref].effect_type = world.heap[last.ref].effect_type
              /\ before.heap[ref].duration # world.heap[last.ref].duration
    /\ Len(effects_of(world, last.target)) = 2
(***************************************************************************)
(* Properties of the frame loop, the turn gate and the pools, checked      *)
(* under Spec.  At pc = "cleanup" the variable before holds the world as   *)
(* the update found it.                                                    *)
(***************************************************************************)
NoTurnConsumed(w) == get_entities_with(w, <<"TurnConsumed">>) = {}

PoolEntities(w) == DOMAIN w.components["GroundPool"]

\* what the resolution systems work on: hp, mp, the effects lists and the
\* Effect objects, the pools and where they lie
ResolutionState(w) ==
    [health |-> w.components["Health"], mana |-> w.components["Mana"],
     effects |-> w.components["ActiveEffects"], heap |-> w.heap,
     pools |-> w.components["GroundPool"],
     tiles |-> [e \in PoolEntities(w) \cap DOMAIN w.components["Position"] |->
                   w.components["Position"][e]]]

Ran(system) == {i \in 1 .. Len(trace) : trace[i].system = system}

NoStaleTurnConsumed == pc \in {"input", "update"} => NoTurnConsumed(world)

\* the driver has just removed the marker the last update added
TurnConsumedCleared ==
    /\ pc = "input"
    /\ last.op = "cleanup"
    /\ has_component(before, Player, "TurnConsumed")
    /\ NoTurnConsumed(world)

\* the move the update found: an intent that consumes a turn, towards a
\* tile that does not block
MoveSucceeds(w) ==
    /\ has_component(w, Player, "MoveIntent")
    /\ w.components["MoveIntent"][Player].consumes_turn
    /\ LET pos == w.components["Position"][Player]
           intent == w.components["MoveIntent"][Player]
           x == pos.x + intent.dx
           y == pos.y + intent.dy
       IN  in_bounds(GameMap, x, y) => get_tile(GameMap, x, y) = "FLOOR"

\* every effect and every pool the update found has lost exactly one tick
TickedOnce ==
    /\ \A entity \in DOMAIN before.components["ActiveEffects"] :
          \A i \in 1 .. Len(effects_of(before, entity)) :
              LET ref == effects_of(before, entity)[i]
              IN  IF before.heap[ref].duration > 1
                  THEN /\ ref \in Range(effects_of(world, entity))
                       /\ world.heap[ref].duration = before.heap[ref].duration - 1
                  ELSE ref \notin Range(effects_of(world, entity))
    /\ \A pool \in PoolEntities(before) :
          IF before.components["GroundPool"][pool].duration > 1
          THEN /\ pool \in PoolEntities(world)
               /\ world.components["GroundPool"][pool].duration =
                      before.components["GroundPool"][pool].duration - 1
          ELSE pool \notin PoolEntities(world)

Dissipations(w, pool) ==
    Cardinality({i \in 1 .. Len(w.log) :
                    w.log[i].kind = "dissipates" /\ w.log[i].entity = pool})

BeforePools == EffectTickSystem_update(MovementSystem_update(before))

OnePoolPerTile ==
    /\ \A tile \in FloorTiles : Cardinality(pools_at(world, tile[1], tile[2])) <= 1
    /\ last.op = "create_pool" =>
          /\ \A pool \in pools_at(before, last.target[1], last.target[2]) :
                pool \in FreeEntities(world) \/ pool \in pools_at(world, last.target[1], last.target[2])
          /\ \E pool \in Entities :
                /\ pools_at(world, last.target[1], last.target[2]) = {pool}
                /\ world.components["GroundPool"][pool].effect_type = last.msg.effect_type
                /\ world.components["GroundPool"][pool].power = last.msg.power
                /\ world.components["GroundPool"][pool].duration = last.msg.duration
(***************************************************************************)
(* Properties of the scheduler, checked under SpecSched.                   *)
(***************************************************************************)
PhaseRank(phase) == CHOOSE i \in 1 .. Len(PhaseNames) : PhaseNames[i] = phase

\* registration j runs before registration i
RunsBefore(j, i) ==
    \/ PhaseRank(registration[j][2]) < PhaseRank(registration[i][2])
    \/ /\ registration[j][2] = registration[i][2]
       /\ j < i

\* the place of registration i in a run
Slot(i) == Cardinality({j \in 1 .. Len(registration) : RunsBefore(j, i)}) + 1

\* the ticks of the player's poison the update found
PoisonLeft(w) ==
    IF has_component(w, Player, "ActiveEffects")
    THEN w.heap[effects_of(w, Player)[1]].duration ELSE 0

\* C5: one update runs every registered system exactly once, phase by phase
\* in the order input, ai, action, resolution, cleanup, render and in
\* registration order within a phase, whatever the order in which systems
\* of different phases were registered; a system sees what the systems
\* before it did: the marker of a successful move is seen by exactly the
\* systems that run after a MovementSystem, and the player's poison has
\* ticked once for each EffectTickSystem among them.
UpdateRunsPhasesInOrder ==
    pc = "cleanup" =>
        /\ Len(trace) = Len(registration)
        /\ \A i \in 1 .. Len(registration) : trace[Slot(i)].system = registration[i][1]
        /\ \A k \in 1 .. Len(trace) :
              trace[k].turn <=>
                  /\ MoveSucceeds(before)
                  /\ \E j \in 1 .. k - 1 : trace[j].system = "MovementSystem"
        /\ hp_of(world, Player) =
              hp_of(before, Player)
                  - 5 * Min2(PoisonLeft(before),
                             Cardinality({k \in Ran("EffectTickSystem") : trace[k].turn}))

\* the effect tick was registered before the movement and into a later
\* phase: it has run after it and has seen the turn of the move
RegisteredOutOfOrder ==
    /\ pc = "cleanup"
    /\ Len(registration) >= 2
    /\ registration[1] = <<"EffectTickSystem", "resolution">>
    /\ registration[2] = <<"MovementSystem", "action">>
    /\ trace[1].system = "MovementSystem"
    /\ trace[2].system = "EffectTickSystem"
    /\ trace[2].turn
    /\ hp_of(world, Player) = hp_of(before, Player) - 5

(***************************************************************************)
(* Instant effects (SpecInstant).                                          *)
(***************************************************************************)
\* the last operation applied an instant effect of one of the kinds
Applied(kinds) == last.op = "apply_effect" /\ last.ref.effect_type \in kinds

\* the components of the target other than the one named are as before
OthersUnchanged(ctype) ==
    \A t \in ComponentTypes \ {ctype} : world.components[t] = before.components[t]

\* C11: an instant HEAL of power p on an entity with Health and Stats sets
\* hp to min(hp + p, max_hp) with max_hp = base_max_hp + constitution * 2 +
\* level * 5 (45 for base 20, constitution 10, level 1); the message reports
\* the actual increase (hp 10, power 20: hp 30, "restored 20 HP"), and "no
\* effect" when nothing was restored
HealRestoresUpToMax ==
    (/\ Applied({"HEAL"})
     /\ has_component(before, Player, "Health")
     /\ has_component(before, Player, "Stats"))
    => LET health == before.components["Health"][Player]
           stats == before.components["Stats"][Player]
           level == IF has_component(before, Player, "Experience")
                    THEN before.components["Experience"][Player].level ELSE 1
           limit == health.base_max_hp + stats.constitution * 2 + level * 5
           hp == health.current_hp
           p == last.ref.power
           now == world.components["Health"][Player].current_hp
       IN  /\ now = (IF hp + p <= limit THEN hp + p ELSE limit)
           /\ world.components["Health"][Player].base_max_hp = health.base_max_hp
           /\ OthersUnchanged("Health")
           /\ (health.base_max_hp = 20 /\ stats.constitution = 10 /\ level = 1)
                  => limit = 45
           /\ IF now > hp
              THEN last.msg = Msg("restored HP", Player, "HEAL", now - hp)
              ELSE last.msg = Msg("no effect", Player, "already at full health", 0)
           /\ (hp = 10 /\ limit = 45 /\ p = 20)
                  => now = 30 /\ last.msg.kind = "restored HP" /\ last.msg.amount = 20

\* the example of C11: hp 10 of 45, HEAL 20
HealedTwenty ==
    /\ Applied({"HEAL"})
    /\ has_component(before, Player, "Stats")
    /\ ~has_component(before, Player, "Experience")
    /\ has_component(before, Player, "Health")
    /\ hp_of(before, Player) = 10
    /\ last.ref.power = 20
    /\ hp_of(world, Player) = 30
    /\ last.msg = Msg("restored HP", Player, "HEAL", 20)

\* the last operation ticked an effect of one of the kinds
Ticked(kinds) == last.op = "apply_tick" /\ last.ref.effect_type \in kinds

\* the component types the target holds
Held(w) == {t \in ComponentTypes : has_component(w, Player, t)}

\* C12: a DAMAGE or POISON of power p, instant or ticked, sets hp to exactly
\* hp - p, below zero included; nothing else of the target changes and no
\* component is removed
DamageSubtractsExactly ==
    (/\ Applied({"DAMAGE", "POISON"}) \/ Ticked({"DAMAGE", "POISON"})
     /\ has_component(before, Player, "Health"))
    => /\ ~Failed(world)
       /\ Held(world) = Held(before)
       /\ world.components["Health"][Player].current_hp =
              before.components["Health"][Player].current_hp - last.ref.power
       /\ world.components["Health"][Player].base_max_hp =
              before.components["Health"][Player].base_max_hp
       /\ OthersUnchanged("Health")
       /\ world.heap = before.heap

\* a poison tick on a target already below zero
PoisonedBelowZero ==
    /\ Ticked({"POISON"})
    /\ has_component(before, Player, "Health")
    /\ hp_of(before, Player) = -10
    /\ last.ref.power = 20
    /\ hp_of(world, Player) = -30
    /\ Held(world) = Held(before)

\* the most mana the target of w can hold: the formula of Mana.max_mp, and
\* the base maximum for a target without Stats as for HEAL
ManaLimit(w) ==
    LET mana == w.components["Mana"][Player]
        level == IF has_component(w, Player, "Experience")
                 THEN w.components["Experience"][Player].level ELSE 1
    IN  IF has_component(w, Player, "Stats")
        THEN mana.base_max_mp + w.components["Stats"][Player].intelligence * 2 + level * 3
        ELSE mana.base_max_mp

\* C13: an instant RESTORE_MANA of power p sets mp to min(mp + p, max_mp)
\* with max_mp = base_max_mp + intelligence * 2 + level * 3, an instant
\* DRAIN_MANA sets mp to max(mp - p, 0); so mp stays within 0 .. max_mp
\* under every sequence of applications
ManaStaysInRange ==
    /\ has_component(world, Player, "Mana")
           => /\ 0 <= world.components["Mana"][Player].current_mp
              /\ world.components["Mana"][Player].current_mp <= ManaLimit(world)
    /\ (Applied({"RESTORE_MANA", "DRAIN_MANA"}) /\ has_component(before, Player, "Mana"))
           => LET mp == before.components["Mana"][Player].current_mp
                  p == last.ref.power
                  now == world.components["Mana"][Player].current_mp
              IN  /\ OthersUnchanged("Mana")
                  /\ world.components["Mana"][Player].base_max_mp =
                         before.components["Mana"][Player].base_max_mp
                  /\ last.ref.effect_type = "RESTORE_MANA"
                         => now = (IF mp + p <= ManaLimit(before) THEN mp + p
                                   ELSE ManaLimit(before))
                  /\ last.ref.effect_type = "DRAIN_MANA"
                         => now = (IF mp - p >= 0 THEN mp - p ELSE 0)

\* a second RESTORE_MANA that stops at max_mp = 10 + 10 * 2 + 1 * 3
ManaRestoredToMax ==
    /\ Applied({"RESTORE_MANA"})
    /\ has_component(before, Player, "Mana")
    /\ has_component(before, Player, "Stats")
    /\ ~has_component(before, Player, "Experience")
    /\ mp_of(before, Player) = 25
    /\ last.ref.power = 20
    /\ mp_of(world, Player) = 33

\* C14: an instant STAT_BUFF or STAT_DEBUFF persists nothing: the Stats of
\* the target, its ActiveEffects (and whether it has the component) and its
\* effective stats are after the application what they were before it; the
\* returned message alone carries the modifiers
InstantStatBuffPersistsNothing ==
    Applied({"STAT_BUFF", "STAT_DEBUFF"})
    => /\ world.components = before.components
       /\ world.heap = before.heap
       /\ has_component(world, Player, "ActiveEffects")
              <=> has_component(before, Player, "ActiveEffects")
       /\ get_effective_stats(world, Player) = get_effective_stats(before, Player)
       /\ ~Failed(world)
       /\ IF DOMAIN last.ref.stat_modifiers # {}
          THEN last.msg = Msg("modified stats", Player, last.ref.effect_type,
                              last.ref.stat_modifiers)
          ELSE last.msg = Msg("no effect", Player, "no stat modifiers", 0)

\* an instant strength +2 on a target whose lasting buff gives strength 12
InstantBuffOnBuffed ==
    /\ Applied({"STAT_BUFF"})
    /\ last.ref.stat_modifiers = [strength |-> 2]
    /\ has_component(before, Player, "Stats")
    /\ has_component(before, Player, "ActiveEffects")
    /\ get_effective_stats(before, Player).strength = 12
    /\ get_effective_stats(world, Player).strength = 12
    /\ last.msg.kind = "modified stats"

\* C15: an instant effect of a health kind on a target without Health, or
\* of a mana kind on a target without Mana, returns a "no effect" message,
\* changes nothing in the store and raises nothing
MissingTrackIsNoEffect ==
    (\/ Applied({"HEAL", "DAMAGE", "POISON", "REGEN"})
           /\ ~has_component(before, Player, "Health")
     \/ Applied({"RESTORE_MANA", "DRAIN_MANA"})
           /\ ~has_component(before, Player, "Mana"))
    => /\ last.msg.kind = "no effect"
       /\ last.msg.what = (IF last.ref.effect_type \in {"RESTORE_MANA", "DRAIN_MANA"}
                           THEN "target has no mana" ELSE "target has no health")
       /\ world = before
       /\ ~Failed(world)

\* a DAMAGE of 20 on a target that has Mana and no Health
DamageWithoutHealth ==
    /\ Applied({"DAMAGE"})
    /\ last.ref.power = 20
    /\ ~has_component(before, Player, "Health")
    /\ has_component(before, Player, "Mana")
    /\ last.msg = Msg("no effect", Player, "target has no health", 0)
    /\ world = before

(***************************************************************************)
(* Failing accessors (SpecWiring).                                         *)
(***************************************************************************)
\* the world after the first k systems of the order have run on w
RECURSIVE RunPrefix(_, _, _)
RunPrefix(w, order, k) ==
    IF k = 0 THEN w ELSE System_update(order[k], RunPrefix(w, order, k - 1))

\* the resources a system fetches when it runs
Fetches(system) ==
    CASE system = "MovementSystem" -> {"MapResource"}
      [] system \in {"RenderSystem", "MapRenderSystem", "PoolRenderSystem"}
            -> {"TerminalResource", "CameraResource", "MapResource"}
      [] system = "UIRenderSystem" -> {"TerminalResource", "UIResource"}
      [] system \in {"EffectTickSystem", "GroundPoolSystem"} -> {"UIResource"}
      [] system = "LookCursorRenderSystem" -> {"LookModeResource"}
      [] system = "TargetCursorRenderSystem" -> {"TargetModeResource"}

\* the components a system requires of the player with component_for
Requires(system) ==
    IF system = "UIRenderSystem" THEN Range(STATS_PANEL_COMPONENTS) ELSE {}

\* C16: when a system asks for a resource or a component the store lacks,
\* the update ends there with the failure: the systems before it have run
\* to their end, no later system runs, and the store keeps all that was
\* done up to the failure, the mutations of the failing system included
UpdateAbortsAtFailure ==
    last.op = "update"
    => LET order == phase_order(phases, PhaseNames)
           n == Len(trace)
       IN  /\ n <= Len(order)
           /\ \A i \in 1 .. n : trace[i].system = order[i]
           /\ \A i \in 0 .. n - 1 : ~Failed(RunPrefix(before, order, i))
           /\ IF \E i \in 1 .. Len(order) : Failed(RunPrefix(before, order, i))
              THEN /\ pc = "crashed"
                   /\ Failed(world)
                   /\ n >= 1
                   /\ Failed(RunPrefix(before, order, n))
                   /\ world.err = "AttributeError"
                         => Fetches(order[n]) \ before.resources # {}
                   /\ world.err = "AssertionError"
                         => \E t \in Requires(order[n]) : ~has_component(before, Player, t)
                   /\ world.components = RunPrefix(before, order, n).components
                   /\ world.log = RunPrefix(before, order, n).log
                   /\ world.resources = before.resources
              ELSE /\ pc = "cleanup"
                   /\ ~Failed(world)
                   /\ n = Len(order)

\* without the UIResource the poison tick fails when it logs: the move
\* made by MovementSystem and the hp taken by the tick stay, and neither
\* GroundPoolSystem nor RenderSystem runs
TickFailedAfterMove ==
    /\ last.op = "update"
    /\ pc = "crashed"
    /\ "UIResource" \notin world.resources
    /\ [i \in 1 .. Len(trace) |-> trace[i].system] = <<"MovementSystem", "EffectTickSystem">>
    /\ world.components["Position"][Player] # before.components["Position"][Player]
    /\ has_component(world, Player, "TurnConsumed")
    /\ hp_of(world, Player) = hp_of(before, Player) - 5

\* under the registration of main.py, with a player that has no Mana, the
\* stats panel of UIRenderSystem fails in component_for: the move made by
\* MovementSystem stays
PanelFailedAfterMove ==
    /\ last.op = "update"
    /\ pc = "crashed"
    /\ world.err = "AssertionError"
    /\ ~has_component(world, Player, "Mana")
    /\ [i \in 1 .. Len(trace) |-> trace[i].system]
           = <<"MovementSystem", "MapRenderSystem", "RenderSystem", "UIRenderSystem">>
    /\ world.components["Position"][Player] # before.components["Position"][Player]

(***************************************************************************)
(* The store (SpecStore).                                                  *)
(***************************************************************************)
\* the entities that exist in w: those that hold at least one component
LiveEntities(w) ==
    {e \in StoredEntities : \E t \in ComponentTypes : e \in DOMAIN w.components[t]}

\* C17: every create_entity call returns an id, greater than every id
\* returned before, whether or not the entities of the earlier ids still
\* exist: it returns the counter, which every call leaves above the id
CreateEntityReturnsFreshIds ==
    last.op = "create_entity"
    => /\ last.msg = NoError
       /\ last.ref = before.next_entity_id
       /\ world.next_entity_id > last.ref

\* C18: get_entities_with(T1, .., Tn) with n >= 1 returns, as a set, exactly
\* the entities that hold a component of every type named, the empty set
\* when no entity holds one of the types, and leaves the store as it was
QueryIsIntersection ==
    (last.op = "get_entities_with" /\ Len(last.ref) >= 1)
    => /\ last.msg.type = "set"
       /\ Range(last.msg.ids) =
              {e \in StoredEntities :
                  \A i \in 1 .. Len(last.ref) : e \in DOMAIN world.components[last.ref[i]]}
       /\ Len(last.msg.ids) = Cardinality(Range(last.msg.ids))
       /\ (\E i \in 1 .. Len(last.ref) : DOMAIN world.components[last.ref[i]] = {})
              => last.msg.ids = <<>>
       /\ world = before

\* both entities hold a Position and only the first a Health
QueriedBothTypes ==
    /\ last.op = "get_entities_with"
    /\ last.ref = <<"Position", "Health">>
    /\ DOMAIN world.components["Position"] = {0, 1}
    /\ DOMAIN world.components["Health"] = {0}
    /\ last.msg.ids = <<0>>

\* C19: get_entities_with() without a type returns, as a set, exactly the
\* entities that exist, those that hold at least one component; a second
\* call on the same store would return the same
QueryOfAllIsLiveSet ==
    (last.op = "get_entities_with" /\ Len(last.ref) = 0)
    => /\ last.msg.type = "set"
       /\ Range(last.msg.ids) = LiveEntities(world)
       /\ last.msg.ids = get_all_entities(world)
       /\ world = before

\* C20: remove_component(e, T) takes the component of type T from e when e
\* holds one and does nothing, without an error, when it holds none; a
\* second removal changes nothing more, and the components of the other
\* entities and of the other types stay as they were
RemoveComponentIsIdempotent ==
    last.op = "remove_component"
    => /\ ~Failed(world)
       /\ ~has_component(world, last.target, last.ref)
       /\ \A e \in StoredEntities, t \in ComponentTypes :
              (e # last.target \/ t # last.ref)
              => /\ has_component(world, e, t) <=> has_component(before, e, t)
                 /\ has_component(before, e, t)
                        => world.components[t][e] = before.components[t][e]
       /\ ~has_component(before, last.target, last.ref) => world = before
       /\ remove_component(world, last.target, last.ref) = world
       /\ [world EXCEPT !.components = before.components] = before

\* a Position taken from an entity that keeps its Health, next to an
\* entity that keeps its Position
RemovedOneOfTwo ==
    /\ last.op = "remove_component"
    /\ last.ref = "Position"
    /\ has_component(before, last.target, "Position")
    /\ has_component(world, last.target, "Health")
    /\ \E e \in StoredEntities \ {last.target} : has_component(world, e, "Position")

\* C21: add_component(e, c) gives e the component c in place of the one of
\* that type it had, if any: get_component(e, type(c)) then returns c, it
\* returns None for every type an entity does not hold, and the components
\* of the other entities and of the other types are as before
AddComponentReplaces ==
    last.op = "add_component"
    => /\ ~Failed(world)
       /\ has_component(world, last.target, last.ref)
       /\ get_component(world, last.target, last.ref) = last.msg
       /\ \A e \in StoredEntities, t \in ComponentTypes :
              /\ ~has_component(world, e, t) => get_component(world, e, t) = None
              /\ (e # last.target \/ t # last.ref)
                 => /\ has_component(world, e, t) <=> has_component(before, e, t)
                    /\ has_component(before, e, t)
                           => get_component(world, e, t) = get_component(before, e, t)
       /\ [world EXCEPT !.components = before.components] = before

\* a Position put in the place of another one, on an entity that holds a
\* Health too, next to an entity with a Position of its own
PositionReplaced ==
    /\ last.op = "add_component"
    /\ last.ref = "Position"
    /\ has_component(before, last.target, "Position")
    /\ get_component(before, last.target, "Position") = Position(0, 0)
    /\ get_component(world, last.target, "Position") = Position(1, 1)
    /\ has_component(world, last.target, "Health")
    /\ \E e \in StoredEntities \ {last.target} :
           /\ has_component(world, e, "Position")
           /\ get_component(world, e, "Position") = Position(0, 0)

(***************************************************************************)
(* Resources (SpecResources).                                              *)
(***************************************************************************)
\* C22: the resource accessors mirror the component accessors: a type is
\* registered at most once, add_resource registers or replaces,
\* get_resource returns the instance of a registered type and None, without
\* failing, for a type that is not registered, and resource_for returns the
\* instance of a registered type and fails otherwise
ResourceAccessorsMirror ==
    /\ last.op = "add_resource"
           => world.resources = before.resources \cup {last.target}
    /\ last.op = "get_resource"
           => /\ last.msg = NoError
              /\ world = before
              /\ last.ref = (IF last.target \in before.resources THEN last.target
                             ELSE None)
    /\ last.op = "resource_for"
           => /\ world = before
              /\ last.msg = NoError <=> last.target \in before.resources
              /\ last.msg = NoError => last.ref = last.target

(***************************************************************************)
(* Geometry (SpecGeometry).                                                *)
(***************************************************************************)
\* the Chebyshev distance of two points, written out
Cheb(p, q) ==
    LET ax == IF q[1] >= p[1] THEN q[1] - p[1] ELSE p[1] - q[1]
        ay == IF q[2] >= p[2] THEN q[2] - p[2] ELSE p[2] - q[2]
    IN  IF ax >= ay THEN ax ELSE ay

\* C23: line(p1, p2) is the ordered inclusive trace: it starts at p1, ends
\* at p2, has chebyshev(p1, p2) + 1 cells, consecutive cells are at
\* Chebyshev distance 1, and the major axis (x when |dx| > |dy|, y
\* otherwise) advances by one towards p2 on every step
LineIsOrderedTrace ==
    last.op = "get_line"
    => LET p1 == last.target[1]
           p2 == last.target[2]
           line == last.msg
           x_major == Cheb(<<p1[1], 0>>, <<p2[1], 0>>) > Cheb(<<0, p1[2]>>, <<0, p2[2]>>)
       IN  /\ Len(line) = Cheb(p1, p2) + 1
           /\ line[1] = p1
           /\ line[Len(line)] = p2
           /\ \A i \in 1 .. Len(line) - 1 :
                  /\ Cheb(line[i], line[i + 1]) = 1
                  /\ IF x_major
                     THEN line[i + 1][1] = line[i][1] + (IF p1[1] < p2[1] THEN 1 ELSE -1)
                     ELSE line[i + 1][2] = line[i][2] + (IF p1[2] < p2[2] THEN 1 ELSE -1)
           /\ line = get_line(p1[1], p1[2], p2[1], p2[2])

\* the line from (0, 0) to (2, 1)
LineTwoOne ==
    /\ last.op = "get_line"
    /\ last.target = << <<0, 0>>, <<2, 1>> >>
    /\ last.msg = << <<0, 0>>, <<1, 0>>, <<2, 1>> >>

\* C24: the cells of line(p1, p2) are the cells of line(p2, p1)
LineCellsAreSymmetric ==
    last.op = "get_line"
    => Range(last.msg) =
           Range(get_line(last.target[2][1], last.target[2][2],
                          last.target[1][1], last.target[1][2]))

\* C25: has_line_of_sight(p1, p2, map) equals has_line_of_sight(p2, p1, map)
LineOfSightIsSymmetric ==
    last.op = "has_line_of_sight"
    => last.msg = has_line_of_sight(last.target[2][1], last.target[2][2],
                                    last.target[1][1], last.target[1][2], last.ref)

\* the cells of the line from p1 to p2 other than its first and last cell
Interior(p1, p2) ==
    LET line == get_line(p1[1], p1[2], p2[1], p2[2])
    IN  {line[i] : i \in 2 .. Len(line) - 1}

\* C26: has_line_of_sight(p1, p2, map) is false exactly when a cell of
\* line(p1, p2) other than its first and last cell blocks sight, whatever
\* stands on p1 and p2, and it is true when p1 = p2 or p1 and p2 are
\* adjacent; a cell blocks sight when it is a cell of the map whose tile
\* blocks sight
SightBlockedByInteriorOnly ==
    last.op = "has_line_of_sight"
    => /\ last.msg.err = NoError
       /\ last.msg.value =
              ~(\E c \in Interior(last.target[1], last.target[2]) :
                   /\ in_bounds(last.ref, c[1], c[2])
                   /\ TILE_PROPERTIES[last.ref.tiles[c[2]][c[1]]].blocks_sight)
       /\ Cheb(last.target[1], last.target[2]) <= 1 => last.msg.value

\* C27: tiles_in_radius(center, radius, map) returns, each once, exactly the
\* cells of the map at Chebyshev distance at most radius from the center:
\* (2 * radius + 1)^2 cells when the square lies inside the map, and the
\* part of the square that is on the map otherwise
TilesAreTheClampedSquare ==
    last.op = "get_tiles_in_radius"
    => LET c == last.target[1]
           radius == last.target[2]
           tiles == last.msg
           inside == /\ 0 <= c[1] - radius /\ c[1] + radius < last.ref.width
                     /\ 0 <= c[2] - radius /\ c[2] + radius < last.ref.height
       IN  /\ Range(tiles) =
                  {t \in (0 .. last.ref.width - 1) \X (0 .. last.ref.height - 1) :
                      Cheb(c, t) <= radius}
           /\ Cardinality(Range(tiles)) = Len(tiles)
           /\ inside => Len(tiles) = (2 * radius + 1) * (2 * radius + 1)
           /\ ~inside => Len(tiles) < (2 * radius + 1) * (2 * radius + 1)

\* the square of radius 1 around the corner (0, 0): four cells of nine
CornerSquare ==
    /\ last.op = "get_tiles_in_radius"
    /\ last.target = << <<0, 0>>, 1 >>
    /\ last.msg = << <<0, 0>>, <<1, 0>>, <<0, 1>>, <<1, 1>> >>

\* C28: no geometry query fails: line, has_line_of_sight and
\* tiles_in_radius return a result for zero-length lines, for points and
\* cells off the map and for radii larger than the map
NoGeometryQueryFails ==
    /\ last.op = "get_line" => Len(last.msg) >= 1
    /\ last.op = "get_tiles_in_radius" => Len(last.msg) >= 0
    /\ last.op = "has_line_of_sight" => last.msg.err = NoError

(***************************************************************************)
(* The three ways an effect is applied (SpecInstant).                      *)
(***************************************************************************)
\* the world after apply_effect of an instant effect of the kind and power
\* of the last operation, on the world that operation found
InstantOnBefore ==
    apply_instant_effect(before, Player,
        Effect(last.ref.effect_type, last.ref.effect_type, last.ref.power, EmptyDict,
               0)).w

\* C29: after one application of a pool the hp and mp of the occupant are
\* those an instant effect of the same kind and power would have left
PoolMatchesInstant ==
    last.op = "apply_pool"
    => /\ hp_of(world, Player) = hp_of(InstantOnBefore, Player)
       /\ has_component(before, Player, "Mana")
              => mp_of(world, Player) = mp_of(InstantOnBefore, Player)

\* C30: after one tick of a POISON, DAMAGE or REGEN effect the hp of the
\* target is the hp an instant effect of the same kind and power would
\* have left
TickMatchesInstant ==
    (last.op = "apply_tick" /\ has_component(before, Player, "Health"))
    => hp_of(world, Player) = hp_of(InstantOnBefore, Player)

(***************************************************************************)
(* Expiration notifications of a resolution tick.                          *)
(***************************************************************************)
\* the update that has just run passed the turn gate of the resolution systems
TickedNow ==
    /\ last.op = "update"
    /\ pc = "cleanup"
    /\ get_entities_with(world, <<"TurnConsumed">>) # {}

\* the effects of the entity that expire on the next tick, in list order
Expiring(w, entity) ==
    IF ~has_component(w, entity, "ActiveEffects") THEN <<>>
    ELSE LET last_turn(ref) == w.heap[ref].duration <= 1
         IN  SelectSeq(get_component(w, entity, "ActiveEffects").effects, last_turn)

\* the expiration notifications about the entity in the log, in log order
WearsOff(w, entity) ==
    LET about(m) == m.kind = "wears off" /\ m.entity = entity
    IN  SelectSeq(w.log, about)

ExpirationsOf(w, entity) ==
    [i \in 1 .. Len(Expiring(w, entity)) |->
        Msg("wears off", entity, w.heap[Expiring(w, entity)[i]].name, 0)]

\* C31 (as amended): on every resolution tick the log receives exactly one
\* expiration notification, in list order, for each effect that expires on
\* an entity carrying IsPlayer, none for the effects that remain active, and
\* none for the effects that expire on any other entity.
ExpirationsLoggedForPlayer ==
    TickedNow =>
        \A e \in Entities :
            WearsOff(world, e) =
                IF has_component(before, e, "IsPlayer") THEN ExpirationsOf(before, e)
                ELSE <<>>

\* a tick on which an effect of the player and an effect of the second actor
\* expire while the log holds the notification of the player's effect
BothExpired ==
    /\ TickedNow
    /\ Expiring(before, Player) # <<>>
    /\ Expiring(before, Monster) # <<>>
    /\ WearsOff(world, Player) # <<>>

\* C31 (as stated): one expiration notification per expiring effect,
\* whichever entity carries it.
ExpirationsLoggedForAll ==
    TickedNow => \A e \in Entities : WearsOff(world, e) = ExpirationsOf(before, e)

(***************************************************************************)
(* Movement and the edge of the map.                                       *)
(***************************************************************************)
\* the tile is on the map and does not block movement
Walkable(game_map, x, y) ==
    in_bounds(game_map, x, y)
    /\ ~TILE_PROPERTIES[get_tile(game_map, x, y)].blocks_movement

\* C32: after MovementSystem.update every entity that held a MoveIntent has
\* lost it; if the tile it aimed at is on the map and does not block, it
\* stands there (with TurnConsumed when the intent consumes the turn), and
\* otherwise its Position is unchanged and it has no TurnConsumed; in either
\* case its Position is an in-bounds tile that does not block movement.
MovementStaysOnOpenTiles ==
    last.op = "movement" =>
        \A e \in get_entities_with(before, <<"MoveIntent", "Position">>) :
            LET intent == get_component(before, e, "MoveIntent")
                old == get_component(before, e, "Position")
                pos == get_component(world, e, "Position")
            IN  /\ ~has_component(world, e, "MoveIntent")
                /\ Walkable(last.ref, pos.x, pos.y)
                /\ IF Walkable(last.ref, old.x + intent.dx, old.y + intent.dy)
                   THEN /\ pos = Position(old.x + intent.dx, old.y + intent.dy)
                        /\ has_component(world, e, "TurnConsumed") = intent.consumes_turn
                   ELSE /\ pos = old
                        /\ ~has_component(world, e, "TurnConsumed")

(***************************************************************************)
(* Area throws of a duration effect.                                       *)
(***************************************************************************)
\* the scroll's duration effect is on the actors it hit and no other source
\* has changed their hp since the throw
AreaThrown == solo.valid /\ solo.hit # {}

\* C33: every actor hit by the area throw of a duration-d effect has taken
\* one tick of it on each turn since the throw, up to d ticks, however many
\* actors the throw hit.
AreaEffectTicksOnEachActor ==
    AreaThrown =>
        \A e \in solo.hit :
            hp_of(world, e) = solo.hp0[e] - (solo.power * Min2(turn - solo.at, solo.duration))

\* C34: at the end of every scheduler update every ActiveEffects component
\* holds at least one effect, and after a resolution tick every effect in a
\* list has a remaining duration of at least 1.
NoExpiredEffectStays ==
    (last.op = "update" /\ pc = "cleanup") =>
        \A e \in get_entities_with(world, <<"ActiveEffects">>) :
            LET effects == get_component(world, e, "ActiveEffects").effects
            IN  /\ effects # <<>>
                /\ TickedNow => \A i \in 1 .. Len(effects) : world.heap[effects[i]].duration >= 1

(***************************************************************************)
(* Healing applications and the maximum.                                   *)
(***************************************************************************)
PooledIn(kinds) == last.op = "apply_pool" /\ last.ref.effect_type \in kinds

HasBoth(ctype) == has_component(before, Player, ctype) /\ has_component(world, Player, ctype)

\* C35: an instant HEAL, REGEN or RESTORE_MANA, a REGEN tick and a HEAL,
\* REGEN or RESTORE_MANA pool never lower the hp (mp) of the target, also
\* when it is above the computed maximum, and an application reported as
\* "no effect" leaves hp and mp as they were.
HealingNeverLowers ==
    /\ (Applied({"HEAL", "REGEN"}) \/ Ticked({"REGEN"}) \/ PooledIn({"HEAL", "REGEN"}))
       /\ HasBoth("Health")
           => hp_of(world, Player) >= hp_of(before, Player)
    /\ (Applied({"RESTORE_MANA"}) \/ PooledIn({"RESTORE_MANA"})) /\ HasBoth("Mana")
           => mp_of(world, Player) >= mp_of(before, Player)
    /\ Applied(EffectTypes) /\ last.msg.kind = "no effect"
           => /\ world.components["Health"] = before.components["Health"]
              /\ world.components["Mana"] = before.components["Mana"]

(***************************************************************************)
(* Equipment slots and inventory capacity.                                 *)
(***************************************************************************)
ItemIds == {SwordA, SwordB, Trinket}

SlotsOf(w) == get_component(w, Player, "EquipmentSlots").slots

\* the slot the equip_item call of the last step put its item into
EquippedInto ==
    IF has_component(world, last.target, "Equipped")
    THEN get_component(world, last.target, "Equipped").slot
    ELSE "main_hand"

\* C36: equip_item into an occupied slot leaves the new item in the slot,
\* returns the item that was there and moves it to the inventory (InInventory,
\* no Equipped); and in every state an item carries Equipped(owner, slot)
\* exactly when the owner's slot table maps the slot to it.
EquipSwapsIntoInventory ==
    /\ \A item_id \in ItemIds, slot \in SLOT_NAMES :
          (/\ has_component(world, item_id, "Equipped")
           /\ get_component(world, item_id, "Equipped") = Equipped(Player, slot))
              <=> SlotsOf(world)[slot] = {item_id}
    /\ (last.op = "equip_item" /\ SlotsOf(before)[EquippedInto] # {})
          => /\ SlotsOf(world)[EquippedInto] = {last.target}
             /\ last.msg.result = SlotsOf(before)[EquippedInto]
             /\ \A previous \in SlotsOf(before)[EquippedInto] \ {last.target} :
                   /\ has_component(world, previous, "InInventory")
                   /\ ~has_component(world, previous, "Equipped")

\* C37: the slot sizes of the items in the player's inventory never add up
\* to more than max_slots; pickup_item and unequip_to_inventory called with
\* fewer free slots than the item needs report failure and change nothing.
InventoryWithinCapacity ==
    /\ get_used_slots(world, Player) <= get_component(world, Player, "Inventory").max_slots
    /\ (/\ last.op = "pickup_item"
        /\ get_free_slots(before, Player) < get_component(before, last.target, "Item").slot_size)
          => last.msg.result = FALSE /\ world = before
    /\ (/\ last.op = "unequip_to_inventory"
        /\ \E item_id \in SlotsOf(before)[last.target] :
              get_free_slots(before, Player) < get_component(before, item_id, "Item").slot_size)
          => last.msg.result = {} /\ world = before

\* a pickup refused with the inventory full
PickupRefused ==
    /\ last.op = "pickup_item"
    /\ last.msg.result = FALSE
    /\ get_used_slots(world, Player) = get_component(world, Player, "Inventory").max_slots
    /\ has_component(world, last.target, "OnGround")

(***************************************************************************)
(* throw_item.                                                             *)
(***************************************************************************)
\* the item of the last throw was in the thrower's inventory
ThrownFromInventory ==
    /\ has_component(before, last.ref, "InInventory")
    /\ get_component(before, last.ref, "InInventory").owner = last.msg.thrower

\* the item of the last throw creates a pool and came down on a tile without actor
PoolThrow ==
    /\ has_component(before, last.ref, "Consumable")
    /\ get_component(before, last.ref, "Consumable").creates_pool
    /\ get_component(before, last.ref, "Consumable").radius = 0
    /\ actors_at(before, last.target[1], last.target[2]) = {}

\* C39: throw_item fails and changes nothing for an item that is not in the
\* thrower's inventory; for an item that is, it succeeds and the item leaves
\* the inventory; a pool-creating consumable that lands on a tile without
\* actor leaves exactly one pool of its kind and power on that tile and no
\* component on the item.
ThrowItemOutcome ==
    last.op = "throw_item" =>
        IF ~ThrownFromInventory THEN ~last.msg.ok /\ world = before
        ELSE /\ last.msg.ok
             /\ last.msg.err = NoError
             /\ ~has_component(world, last.ref, "InInventory")
             /\ PoolThrow =>
                   /\ Cardinality(pools_at(world, last.target[1], last.target[2])) = 1
                   /\ \A p \in pools_at(world, last.target[1], last.target[2]) :
                         LET pool == get_component(world, p, "GroundPool")
                             thrown == get_component(before, last.ref, "Consumable")
                         IN  /\ pool.effect_type = get_effect_type(thrown.effect_type)
                             /\ pool.power = thrown.effect_power
                   /\ \A t \in ComponentTypes : ~has_component(world, last.ref, t)

(***************************************************************************)
(* The popup stack against the handler stack, under SpecMenus.             *)
(***************************************************************************)
HandlerPopups == {handler_stack[i].popup : i \in DOMAIN handler_stack} \ {NoPopup}

\* C38: for every sequence of key presses the popup stack follows the
\* handler stack: no popup is in the popup stack twice, every popup in it
\* is the popup of a handler that is still on the handler stack, and with
\* only the main game handler left the popup stack is empty.
PopupsFollowHandlers ==
    pc # "crashed" =>
        /\ \A i, j \in DOMAIN world.popup_stack :
              i # j => world.popup_stack[i] # world.popup_stack[j]
        /\ Range(world.popup_stack) \subseteq HandlerPopups
        /\ Len(handler_stack) = 1 => world.popup_stack = <<>>

(***************************************************************************)
(* Effective stats against the effects an actor carries, under SpecStats.  *)
(***************************************************************************)
StatNames == DOMAIN Stats(10, 10)

\* the modifier of one stat, summed over the effects of a list one by one
RECURSIVE SumModifier(_, _, _)
SumModifier(heap, effects, stat) ==
    IF effects = <<>> THEN 0
    ELSE (IF stat \in DOMAIN heap[Head(effects)].stat_modifiers
          THEN heap[Head(effects)].stat_modifiers[stat] ELSE 0)
         + SumModifier(heap, Tail(effects), stat)

ModifierOf(modifiers, stat) == IF stat \in DOMAIN modifiers THEN modifiers[stat] ELSE 0

\* C40: for an actor with Stats, get_effective_stats is, for each of the six
\* stats, the base value plus the sum of that stat's modifiers over the
\* effects now in its ActiveEffects list; a single STAT_BUFF or STAT_DEBUFF
\* of duration d adds its modifiers to the effective stats from its
\* application until the d-th resolved turn after it, and from that turn on
\* the effective stats are the ones before it again.
EffectiveStatsFollowEffects ==
    /\ \A entity \in {Player, Monster} :
          has_component(world, entity, "Stats") =>
              \A stat \in StatNames :
                  get_effective_stats(world, entity)[stat] =
                      get_component(world, entity, "Stats")[stat]
                      + SumModifier(world.heap, effects_of(world, entity), stat)
    /\ (solo.valid /\ has_component(world, solo.target, "Stats")) =>
          \A stat \in StatNames :
              get_effective_stats(world, solo.target)[stat] =
                  solo.hp0[stat]
                  + (IF turn - solo.at < solo.duration
                     THEN ModifierOf(solo.power, stat) ELSE 0)

\* two effects that modify strength are carried at once
BuffsStacked ==
    \E entity \in {Player, Monster} :
        /\ has_component(world, entity, "Stats")
        /\ Len(effects_of(world, entity)) = 2
        /\ \A i \in 1 .. 2 :
              "strength" \in DOMAIN world.heap[effects_of(world, entity)[i]].stat_modifiers
        /\ get_effective_stats(world, entity).strength
              # get_component(world, entity, "Stats").strength

\* a stat effect of two turns has expired and the stat is back
BuffExpired ==
    /\ solo.valid
    /\ has_component(world, solo.target, "Stats")
    /\ solo.duration = 2
    /\ turn - solo.at >= solo.duration
    /\ ModifierOf(solo.power, "strength") # 0
    /\ get_effective_stats(world, solo.target) = solo.hp0
    /\ get_effective_stats(before, solo.target) # solo.hp0
====
